---- MODULE Spec2Model ----
(***************************************************************************)
(* Tick scheduler of why-combinator (SimulationEngine, engine/core.py)     *)
(* with its batched writer (engine/performance.py), the storage records    *)
(* it writes, and the observers of its event bus.                          *)
(*                                                                         *)
(* Two specifications are given over the same variables:                   *)
(*   Spec      the public methods called one after another by a single     *)
(*             caller (the way tests/test_engine.py drives the engine);    *)
(*   LoopSpec  run_loop() on the main thread, interleaved with the         *)
(*             interrupt-signal handlers and the keyboard-listener thread, *)
(*             which call pause()/resume()/stop() at any point of a tick.  *)
(* The virtual clock is counted relative to simulation.created_at.         *)
(***************************************************************************)
EXTENDS Integers, Sequences, FiniteSets, TLC

\* ---- bounds of the model ----
MaxTicks == 2
MaxCeiling == 2
MaxStops == 2
MaxSigint == 3
SavedTick == 98
SavedMemLen == 19
MaxAdds == 2
MaxSubs == 4
MaxCapacity == 2
MaxAdded == 6
SavedSteps == 8
MaxRunSteps == 2
MaxUpdates == 2
MaxDecays == 2
MaxObserved == 11
MaxBatch == 3
MaxLogs == 4
MaxActive == 2
MaxPooled == 4
MaxPolicyRetries == 3
MaxPhaseTicks == 2
MaxPhaseActors == 2
MaxSpawned == 23
MaxDiskTicks == 8

\* ---- program constants ----
MetricsEvery == 10
CheckpointEvery == 100
BatchSize == 50
StepDuration == 1
MemoryTail == 20
DefaultMemorySize == 100
MaxInboxSize == 50
MaxRetries == 3
ReflectEvery == 10
ReflectMinMemory == 5
MinStrength == 300
DefaultWindow == 20
AnomalyThreshold == 2
DefaultMaxActive == 20
PoolAbove == 20
PooledActive == 20
MaxHorizon == 60
TicksPerMonth == 30
BackoffBase == 2
CoalitionEvery == 50
ConversationEvery == 25
DebateEvery == 50

\* ids of the actors that can be spawned, in spawn order
AgentIds == <<"a1", "a2">>
AgentSet == {AgentIds[i] : i \in 1..Len(AgentIds)}

\* what one call of agent.run_step can do: raise, return None, return an
\* interaction; "ok_late" is an interaction handed to the writer when its
\* flush interval has elapsed on the wall clock
Outcomes == {"raise", "none", "ok", "ok_late"}

VARIABLES
    agents,               \* SimulationEngine.agents (list of actor ids)
    is_running,           \* SimulationEngine.is_running
    is_paused,            \* SimulationEngine.is_paused
    tick_count,           \* SimulationEngine.tick_count
    current_time,         \* SimulationEngine.current_time - created_at
    max_failures,         \* SimulationEngine._max_failures (0 = None)
    consecutive_failures, \* SimulationEngine._consecutive_failures
    sigint_count,         \* SimulationEngine._sigint_count
    buffer,               \* BatchWriter._buffer
    cached,               \* SimulationEngine._cached_interactions
    persisted,            \* storage: the interactions table
    sim_params,           \* simulation.parameters: the checkpoint keys
    stored_meta,          \* storage: the metadata table (checkpoint keys)
    steps_taken,          \* BaseAgent._steps_taken of every actor
    tick_events,          \* `tick` events received by a subscriber
    start_events,         \* `simulation_started` events received
    stop_events,          \* `simulation_stopped` events received
    metric_ticks,         \* ticks at which `metric_changed` was received
    fail_streak,          \* history: run-steps that raised since the last
                          \* run-step that returned
    pc,                   \* position of the caller / of run_loop
    idx,                  \* run_loop: index of the next actor in step()
    max_ticks,            \* run_loop: its max_ticks argument (0 = None)
    listener,             \* KeyboardListener thread position
    memory,               \* BaseAgent.memory of every actor
    latest_metrics,       \* SimulationEngine._latest_metrics (<<>> = unset)
    reports,              \* what finalize() returned, the last two runs
    capacity,             \* BaseAgent._max_memory_size of the actors
    checkpointed,         \* history: tick, clock and memory tails at the
                          \* last checkpoint() (<<>> = none yet)
    engine_no,            \* 1 = the first engine, 2 = an engine constructed
                          \* from the persisted simulation
    restore_result,       \* what restore_from_checkpoint() returned on the
                          \* engine constructed from the persisted simulation
    actor_type,           \* AgentEntity.type.value of the actors
    inbox,                \* BaseAgent.inbox of the first actor
    outcome,              \* what the last awaited run_step or reason did
    published,            \* actions of the interaction_occurred events
    added,                \* history: number of add_memory calls so far
    step_error,           \* an exception left step() of the engine
    queries,              \* history: the async_completion calls awaited
                          \* by the last run_step
    subscribers,          \* EventBus._subscribers
    all_subscribers,      \* EventBus._all_subscribers
    delivered,            \* handlers called by the last publish, in order
    registration,         \* history: the subscribe calls, in order
    propagated,           \* the last publish raised to its caller
    last_event,           \* type of the last event published ("" = none)
    edges,                \* RelationshipGraph._edges
    coalitions,           \* CoalitionManager.coalitions (member sets)
    decays,               \* history: number of decays applied so far
    detections,           \* history: the last two detect_coalitions runs
    window_size,          \* EmergenceDetector.window_size
    action_history,       \* EmergenceDetector.action_history
    flags,                \* EmergenceDetector.flags (type and tick)
    raised,               \* history: the flag types the last observe()
                          \* handed to _flag, in order
    writer,               \* a BatchWriter: batch_size, _buffer, and the
                          \* storage.log_interaction calls it made
    writer_added,         \* history: the logs handed to add(), in order
    pool,                 \* an AgentPool: max_active, active, inactive
    pool_added,           \* history: number of actors handed to add()
    phases,               \* history: the calls of the last step() in
                          \* order, with the tick it ran for, the number
                          \* of actors, and the engine fields it reads
    provider,             \* a completion() call of an OllamaProvider: its
                          \* retry policy, the loop variable `attempt`,
                          \* and as history the client.post calls made,
                          \* the time.sleep arguments and how it ended
    roster,               \* an engine that spawns actors while it ticks:
                          \* agents, _agent_pool, and as history the actors
                          \* the last step() drove
    manager,              \* a MultiPhaseManager: simulation.stage,
                          \* current_phase_idx, and as history the
                          \* phase_transition events and the last result
    runway,               \* the arguments of one runway computation and
                          \* the results of calculate_runway and of
                          \* calculate_basic_metrics
    disk                  \* the metadata table of a simulation file, the
                          \* process that checkpoints into it, and what a
                          \* restarted process reads from it

engineVars == <<agents, is_running, is_paused, tick_count, current_time,
                max_failures, consecutive_failures, sigint_count, buffer,
                cached, persisted, sim_params, stored_meta, steps_taken,
                tick_events, start_events, stop_events, metric_ticks,
                fail_streak, memory, latest_metrics>>
loopVars == <<pc, idx, max_ticks, listener>>
\* the state of the components that are specified on their own
reportVars == <<reports>>
tripVars == <<checkpointed, engine_no, restore_result>>
actorVars == <<capacity, actor_type, inbox, outcome, published, added,
               step_error, queries>>
busVars == <<subscribers, all_subscribers, delivered, registration,
             propagated, last_event>>
relVars == <<edges, coalitions, decays, detections>>
emVars == <<window_size, action_history, flags, raised>>
perfVars == <<writer, writer_added, pool, pool_added>>
lateVars == <<roster, manager, runway, disk>>
sideVars == <<emVars, perfVars, provider, phases, lateVars>>
compVars == <<reportVars, tripVars, actorVars, busVars, relVars, sideVars>>
vars == <<agents, is_running, is_paused, tick_count, current_time,
          max_failures, consecutive_failures, sigint_count, buffer,
          cached, persisted, sim_params, stored_meta, steps_taken,
          tick_events, start_events, stop_events, metric_ticks,
          fail_streak, memory, latest_metrics, pc, idx, max_ticks, listener,
          reports, capacity, checkpointed, engine_no, restore_result,
          actor_type, inbox, outcome, published, added, step_error,
          queries,
          subscribers, all_subscribers, delivered, registration, propagated,
          last_event, edges, coalitions, decays, detections,
          window_size, action_history, flags, raised,
          writer, writer_added, pool, pool_added, provider, phases,
          roster, manager, runway, disk>>

\* the engine, its collaborators and its observers as one record
State ==
    [agents |-> agents, is_running |-> is_running, is_paused |-> is_paused,
     tick_count |-> tick_count, current_time |-> current_time,
     max_failures |-> max_failures,
     consecutive_failures |-> consecutive_failures,
     sigint_count |-> sigint_count, buffer |-> buffer, cached |-> cached,
     persisted |-> persisted, sim_params |-> sim_params,
     stored_meta |-> stored_meta, steps_taken |-> steps_taken,
     tick_events |-> tick_events,
     start_events |-> start_events, stop_events |-> stop_events,
     metric_ticks |-> metric_ticks,
     fail_streak |-> fail_streak, memory |-> memory,
     latest_metrics |-> latest_metrics]

Commit(s) ==
    /\ agents' = s.agents
    /\ is_running' = s.is_running
    /\ is_paused' = s.is_paused
    /\ tick_count' = s.tick_count
    /\ current_time' = s.current_time
    /\ max_failures' = s.max_failures
    /\ consecutive_failures' = s.consecutive_failures
    /\ sigint_count' = s.sigint_count
    /\ buffer' = s.buffer
    /\ cached' = s.cached
    /\ persisted' = s.persisted
    /\ sim_params' = s.sim_params
    /\ stored_meta' = s.stored_meta
    /\ steps_taken' = s.steps_taken
    /\ tick_events' = s.tick_events
    /\ start_events' = s.start_events
    /\ stop_events' = s.stop_events
    /\ metric_ticks' = s.metric_ticks
    /\ fail_streak' = s.fail_streak
    /\ memory' = s.memory
    /\ latest_metrics' = s.latest_metrics

\* ---------------------------------------------------------------------
\* BatchWriter
\* ---------------------------------------------------------------------
\* flush(): every buffered log goes to storage.log_interaction, in order
WriterFlush(s) ==
    [s EXCEPT !.persisted = s.persisted \o s.buffer, !.buffer = <<>>]

\* add(log): append, then flush when the buffer holds batch_size entries
\* or flush_interval seconds have elapsed since the last flush
WriterAdd(s, log, elapsed) ==
    LET s1 == [s EXCEPT !.buffer = Append(s.buffer, log)]
    IN  IF Len(s1.buffer) >= BatchSize \/ elapsed THEN WriterFlush(s1) ELSE s1

\* ---------------------------------------------------------------------
\* SimulationEngine: lifecycle
\* ---------------------------------------------------------------------
\* start(): no-op when already running; publishes simulation_started
EngStart(s) ==
    IF s.is_running THEN s
    ELSE [s EXCEPT !.is_running = TRUE, !.is_paused = FALSE,
                   !.start_events = @ + 1]

\* stop(): clears both flags, flushes the writer, publishes
\* simulation_stopped; there is no guard
EngStop(s) ==
    LET s1 == WriterFlush([s EXCEPT !.is_running = FALSE,
                                    !.is_paused = FALSE])
    IN  [s1 EXCEPT !.stop_events = @ + 1]

\* pause() without its guard
EngPauseUnguarded(s) == [s EXCEPT !.is_paused = TRUE]

\* pause()
EngPause(s) ==
    IF s.is_running /\ ~s.is_paused THEN [s EXCEPT !.is_paused = TRUE] ELSE s

\* resume()
EngResume(s) ==
    IF s.is_running /\ s.is_paused
    THEN [s EXCEPT !.is_paused = FALSE, !.sigint_count = 0]
    ELSE s

\* seq[-n:]
LastN(seq, n) ==
    IF Len(seq) <= n THEN seq ELSE SubSeq(seq, Len(seq) - n + 1, Len(seq))

\* the ids of the actors in self.agents
SpawnedIds(s) == {s.agents[i] : i \in 1..Len(s.agents)}

\* checkpoint() leaving the metadata table as it was
EngCheckpointNotPersisted(s) ==
    LET p == <<[tick_count |-> s.tick_count,
                current_time |-> s.current_time,
                agent_memories |->
                    [a \in SpawnedIds(s) |-> LastN(s.memory[a], MemoryTail)]]>>
    IN  [s EXCEPT !.sim_params = p]

\* checkpoint(): clock, tick count and the last 20 memory entries of every
\* actor go into simulation.parameters, and the simulation record replaces
\* the metadata table
EngCheckpoint(s) ==
    LET p == <<[tick_count |-> s.tick_count,
                current_time |-> s.current_time,
                agent_memories |->
                    [a \in SpawnedIds(s) |-> LastN(s.memory[a], MemoryTail)]]>>
    IN  [s EXCEPT !.sim_params = p, !.stored_meta = p]

\* restore_from_checkpoint(): only when the parameters hold a checkpoint;
\* its result is whether they did
RestoreResult(s) == s.sim_params # <<>>

EngRestore(s) ==
    IF s.sim_params # <<>>
    THEN LET p == s.sim_params[1]
         IN  [s EXCEPT !.current_time = p.current_time,
                       !.tick_count = p.tick_count,
                       !.memory = [a \in DOMAIN s.memory |->
                                      IF a \in DOMAIN p.agent_memories
                                      THEN p.agent_memories[a]
                                      ELSE s.memory[a]],
                       !.cached = s.persisted]
    ELSE s

\* calculate_basic_metrics(simulation, interactions, tick_count): every
\* metric is computed from the interactions and the tick count (and the
\* fixed parameters of the simulation); the model keeps the two arguments,
\* so two results are equal exactly when the arguments are
CalculateBasicMetrics(interactions, tick) ==
    [interactions |-> interactions, tick_count |-> tick]

\* _emit_metrics(): flushes the writer first, then computes, logs and
\* publishes the metrics of this tick and keeps them as _latest_metrics
EngEmitMetrics(s) ==
    LET s1 == WriterFlush(s)
    IN  [s1 EXCEPT !.metric_ticks = @ \cup {s.tick_count},
                   !.latest_metrics =
                       <<CalculateBasicMetrics(s.cached, s.tick_count)>>]

\* generate_critique_report(simulation, interactions, metrics): the number
\* of interactions and the metrics; top_actions is computed from the
\* interactions, strengths, weaknesses and recommendation from the metrics
GenerateCritiqueReport(interactions, metrics) ==
    [total_interactions |-> Len(interactions), metrics_summary |-> metrics]

\* finalize(): flushes the writer, then builds the report
EngFinalize(s) == WriterFlush(s)

\* what finalize() returns
FinalReport(s) ==
    LET interactions == IF s.cached # <<>> THEN s.cached
                        ELSE s.persisted \o s.buffer
        metrics == IF s.latest_metrics # <<>> THEN s.latest_metrics[1]
                   ELSE CalculateBasicMetrics(interactions, s.tick_count)
    IN  GenerateCritiqueReport(interactions, metrics)

\* ---------------------------------------------------------------------
\* SimulationEngine.step, in the three parts of its body
\* ---------------------------------------------------------------------
\* the guard of step() without the pause test
StepGuardIgnoresPause(s) == s.is_running

\* the guard of step()
StepGuard(s) == s.is_running /\ ~s.is_paused

\* tick_count += 1; current_time += duration (after the guard passed)
StepBegin(s) ==
    [s EXCEPT !.tick_count = @ + 1, !.current_time = @ + StepDuration]

\* the loop body with the ceiling compared by > instead of >=
AgentIterStrictCeiling(s, a, out) ==
    LET s1 == [s EXCEPT !.steps_taken[a] = @ + 1]
    IN  IF out = "raise"
        THEN LET s2 == [s1 EXCEPT !.consecutive_failures = @ + 1,
                                  !.fail_streak = @ + 1]
             IN  IF s2.max_failures # 0
                    /\ s2.consecutive_failures > s2.max_failures
                 THEN [st |-> EngStop(s2), ret |-> TRUE]
                 ELSE [st |-> s2, ret |-> FALSE]
        ELSE IF out = "none"
        THEN [st |-> [s1 EXCEPT !.fail_streak = 0], ret |-> FALSE]
        ELSE LET log == <<a, s1.current_time>>
                 s2 == WriterAdd([s1 EXCEPT !.consecutive_failures = 0,
                                            !.fail_streak = 0],
                                 log, out = "ok_late")
             IN  [st |-> [s2 EXCEPT !.cached = Append(@, log)],
                  ret |-> FALSE]

\* the loop body leaving step() on a failure below the ceiling instead of
\* going on with the next actor
AgentIterAbortsTick(s, a, out) ==
    LET s1 == [s EXCEPT !.steps_taken[a] = @ + 1]
    IN  IF out = "raise"
        THEN LET s2 == [s1 EXCEPT !.consecutive_failures = @ + 1,
                                  !.fail_streak = @ + 1]
             IN  IF s2.max_failures # 0
                    /\ s2.consecutive_failures >= s2.max_failures
                 THEN [st |-> EngStop(s2), ret |-> TRUE]
                 ELSE [st |-> s2, ret |-> TRUE]
        ELSE IF out = "none"
        THEN [st |-> [s1 EXCEPT !.fail_streak = 0], ret |-> FALSE]
        ELSE LET log == <<a, s1.current_time>>
                 s2 == WriterAdd([s1 EXCEPT !.consecutive_failures = 0,
                                            !.fail_streak = 0],
                                 log, out = "ok_late")
             IN  [st |-> [s2 EXCEPT !.cached = Append(@, log)],
                  ret |-> FALSE]

\* one iteration of `for agent in active_agents`; ret says that step()
\* returned from inside the loop
AgentIter(s, a, out) ==
    LET s1 == [s EXCEPT !.steps_taken[a] = @ + 1]
    IN  IF out = "raise"
        THEN LET s2 == [s1 EXCEPT !.consecutive_failures = @ + 1,
                                  !.fail_streak = @ + 1]
             IN  IF s2.max_failures # 0
                    /\ s2.consecutive_failures >= s2.max_failures
                 THEN [st |-> EngStop(s2), ret |-> TRUE]
                 ELSE [st |-> s2, ret |-> FALSE]
        ELSE IF out = "none"
        THEN [st |-> [s1 EXCEPT !.fail_streak = 0], ret |-> FALSE]
        ELSE LET log == <<a, s1.current_time>>
                 s2 == WriterAdd([s1 EXCEPT !.consecutive_failures = 0,
                                            !.fail_streak = 0],
                                 log, out = "ok_late")
             IN  [st |-> [s2 EXCEPT !.cached = Append(@, log)],
                  ret |-> FALSE]

\* the loop over the actors from index i on, outs[i] being what the i-th
\* actor's run_step does; with at most 20 actors there is no AgentPool and
\* active_agents is self.agents
RECURSIVE RunAgents(_, _, _)
RunAgents(s, outs, i) ==
    IF i > Len(s.agents) THEN [st |-> s, ret |-> FALSE]
    ELSE LET r == AgentIter(s, s.agents[i], outs[i])
         IN  IF r.ret THEN r ELSE RunAgents(r.st, outs, i + 1)

\* the tail of step() skipped when a pause arrived during the tick
StepTailUnlessPaused(s) ==
    IF s.is_paused THEN s
    ELSE LET s1 == [s EXCEPT !.tick_events =
                        Append(@, <<s.tick_count, s.current_time>>)]
             s2 == IF s1.tick_count % MetricsEvery = 0
                   THEN EngEmitMetrics(s1) ELSE s1
         IN  IF s2.tick_count % CheckpointEvery = 0
             THEN EngCheckpoint(s2) ELSE s2

\* after the loop: the tick event, the metrics cycle (every 10 ticks), the
\* checkpoint (every 100 ticks). The coalition, conversation and debate
\* cadences and the relationship decay write only to the relationship
\* graph and the coalition manager, which are not part of this state.
StepTail(s) ==
    LET s1 == [s EXCEPT !.tick_events =
                   Append(@, <<s.tick_count, s.current_time>>)]
        s2 == IF s1.tick_count % MetricsEvery = 0
              THEN EngEmitMetrics(s1) ELSE s1
    IN  IF s2.tick_count % CheckpointEvery = 0 THEN EngCheckpoint(s2) ELSE s2

\* step() as a whole
EngStep(s, outs) ==
    IF ~StepGuard(s) THEN s
    ELSE LET r == RunAgents(StepBegin(s), outs, 1)
         IN  IF r.ret THEN r.st ELSE StepTail(r.st)

\* ---------------------------------------------------------------------
\* Construction
\* ---------------------------------------------------------------------
\* the checkpoint a previous run may have left in the simulation record
SavedCheckpoints ==
    {<<>>, <<[tick_count |-> SavedTick, current_time |-> SavedTick,
              agent_memories |-> [a \in AgentSet |-> <<>>]]>>}

\* SimulationEngine.__init__ followed by the set-up of cli.py and api.py:
\* the ceiling is set and every actor is spawned
InitEngine ==
    /\ agents = AgentIds
    /\ is_running = FALSE
    /\ is_paused = FALSE
    /\ tick_count = 0
    /\ current_time = 0
    /\ max_failures \in 0..MaxCeiling
    /\ consecutive_failures = 0
    /\ sigint_count = 0
    /\ buffer = <<>>
    /\ cached = <<>>
    /\ persisted = <<>>
    /\ sim_params \in SavedCheckpoints
    /\ stored_meta = sim_params
    /\ steps_taken = [a \in AgentSet |-> 0]
    /\ tick_events = <<>>
    /\ start_events = 0
    /\ stop_events = 0
    /\ metric_ticks = {}
    /\ fail_streak = 0
    /\ memory = [a \in AgentSet |-> <<>>]
    /\ latest_metrics = <<>>

\* the components specified on their own, as constructed
EventTypes == {"tick", "metric_changed"}

InitReport == reports = <<>>

InitTrip ==
    /\ checkpointed = <<>>
    /\ engine_no = 1
    /\ restore_result = "none"

\* BaseAgent.__init__ of the actors created by set-up
InitActor ==
    /\ capacity = DefaultMemorySize
    /\ actor_type = "customer"
    /\ inbox = <<>>
    /\ outcome = [kind |-> "none", action |-> "", error |-> ""]
    /\ published = <<>>
    /\ added = 0
    /\ step_error = FALSE
    /\ queries = 0

\* EventBus.__init__
InitBus ==
    /\ subscribers = [ty \in EventTypes |-> <<>>]
    /\ all_subscribers = <<>>
    /\ delivered = <<>>
    /\ registration = <<>>
    /\ propagated = FALSE
    /\ last_event = ""

\* RelationshipGraph.__init__, CoalitionManager.__init__
InitRel ==
    /\ edges = <<>>
    /\ coalitions = <<>>
    /\ decays = 0
    /\ detections = <<>>

\* EmergenceDetector.__init__ with its default window
InitEm ==
    /\ window_size = DefaultWindow
    /\ action_history = <<>>
    /\ flags = <<>>
    /\ raised = <<>>

\* BatchWriter.__init__ and AgentPool.__init__ with their defaults
InitPerf ==
    /\ writer = [batch_size |-> BatchSize, buffer |-> <<>>,
                 persisted |-> <<>>]
    /\ writer_added = <<>>
    /\ pool = [max_active |-> DefaultMaxActive, active |-> <<>>,
               inactive |-> <<>>]
    /\ pool_added = 0

\* OllamaProvider.__init__ with the default RetryPolicy, no call made
NewProvider(max_retries, backoff_base) ==
    [max_retries |-> max_retries, backoff_base |-> backoff_base,
     attempt |-> 0, posts |-> <<>>, waits |-> <<>>, status |-> "idle"]

InitProv == provider = NewProvider(MaxRetries, BackoffBase)

\* an engine as constructed, no step() taken
NewPhases(tick, n, llm, ceiling) ==
    [tick_count |-> tick, first_tick |-> tick, actors |-> n,
     llm_provider |-> llm, max_failures |-> ceiling,
     consecutive_failures |-> 0, is_running |-> TRUE, returned |-> FALSE,
     trace |-> <<>>]

InitPhases == phases = NewPhases(0, 0, FALSE, 0)

\* an engine with no actor spawned and no pool
NewRoster == [agents |-> 0, agent_pool |-> <<>>, driven |-> <<>>]

InitRoster == roster = NewRoster

\* SimulationStage, in the order of the enum
Stages == <<"idea", "mvp", "launch", "growth", "scale", "exit">>

\* PHASES and PHASE_THRESHOLDS of engine/scenarios.py
PHASES == <<"idea", "mvp", "launch", "growth", "scale">>
PHASE_THRESHOLDS == <<20, 50, 100, 200, 500>>

\* the position of x in seq, counted from 0
IndexOf(seq, x) == (CHOOSE i \in DOMAIN seq : seq[i] = x) - 1

\* MultiPhaseManager.__init__(simulation, event_bus)
NewManager(stage) ==
    [stage |-> stage,
     current_phase_idx |-> IF \E i \in DOMAIN PHASES : PHASES[i] = stage
                           THEN IndexOf(PHASES, stage) ELSE 0,
     published |-> <<>>, result |-> FALSE]

\* MultiPhaseManager.__init__ for a simulation whose stage is idea
InitManager == manager = NewManager("idea")

\* one runway computation: the simulation's initial_capital and
\* burn_growth_rate (revenue_growth_rate being 0), the burn rate, the
\* monthly and the cumulative revenue of the tick, and no result yet
NewRunway(capital, burn, monthly, revenue, tick, growth) ==
    [initial_capital |-> capital, burn_rate |-> burn,
     monthly_revenue |-> monthly, revenue |-> revenue, tick_count |-> tick,
     burn_growth_rate |-> growth, projected |-> <<>>, emitted |-> <<>>]

InitRunway == runway = NewRunway(0, 0, 0, 0, 10, 0)

\* create_simulation has inserted the record (tick 0) and the engine runs
NewDisk ==
    [meta |-> <<0>>, tick_count |-> 0, pc |-> "idle", alive |-> TRUE,
     got |-> "none"]

InitDisk == disk = NewDisk

InitLate == InitRoster /\ InitManager /\ InitRunway /\ InitDisk

InitSide == InitEm /\ InitPerf /\ InitProv /\ InitPhases /\ InitLate

InitComponents ==
    /\ InitSide
    /\ InitReport
    /\ InitTrip
    /\ InitActor
    /\ InitBus
    /\ InitRel

Init ==
    /\ InitEngine
    /\ InitComponents
    /\ pc = "api"
    /\ idx = 0
    /\ max_ticks = 0
    /\ listener = "off"

\* the model stops ticking MaxTicks ticks after a fresh start or after the
\* saved checkpoint
TickAllowed(t) ==
    \/ t < MaxTicks
    \/ (t >= SavedTick /\ t < SavedTick + MaxTicks)

\* ---------------------------------------------------------------------
\* Spec: the methods called by one caller
\* ---------------------------------------------------------------------
Start ==
    /\ pc = "api"
    /\ Commit(EngStart(State))
    /\ UNCHANGED <<loopVars, compVars>>

Stop ==
    /\ pc = "api"
    /\ stop_events < MaxStops
    /\ Commit(EngStop(State))
    /\ UNCHANGED <<loopVars, compVars>>

Pause ==
    /\ pc = "api"
    /\ Commit(EngPause(State))
    /\ UNCHANGED <<loopVars, compVars>>

Resume ==
    /\ pc = "api"
    /\ Commit(EngResume(State))
    /\ UNCHANGED <<loopVars, compVars>>

StepWith(outs) ==
    /\ pc = "api"
    /\ TickAllowed(tick_count)
    /\ Commit(EngStep(State, outs))
    /\ UNCHANGED <<loopVars, compVars>>

Step == \E outs \in [1..Len(agents) -> Outcomes] : StepWith(outs)

Checkpoint ==
    /\ pc = "api"
    /\ Commit(EngCheckpoint(State))
    /\ UNCHANGED <<loopVars, compVars>>

\* set-up restores right after spawning, before the engine is started
Restore ==
    /\ pc \in {"api", "init"}
    /\ ~is_running /\ tick_count = 0 /\ start_events = 0
    /\ Commit(EngRestore(State))
    /\ UNCHANGED <<loopVars, compVars>>

Finalize ==
    /\ pc \in {"api", "exited"}
    /\ Commit(EngFinalize(State))
    /\ UNCHANGED <<loopVars, compVars>>

Next ==
    \/ Start
    \/ Stop
    \/ Pause
    \/ Resume
    \/ Step
    \/ Checkpoint
    \/ Restore
    \/ Finalize

Spec == Init /\ [][Next]_vars

\* ---------------------------------------------------------------------
\* LoopSpec: run_loop on the main thread, with the requests of the
\* interrupt handlers and of the keyboard listener arriving at any point
\* ---------------------------------------------------------------------
LoopInit ==
    /\ InitEngine
    /\ InitComponents
    /\ pc = "init"
    /\ idx = 0
    /\ max_ticks \in {0, MaxTicks}
    /\ listener \in {"off", "check"}

\* _install_signal_handlers(); start()
LoopStart ==
    /\ pc = "init"
    /\ Commit(EngStart([State EXCEPT !.sigint_count = 0]))
    /\ pc' = "while"
    /\ UNCHANGED <<idx, max_ticks, listener, compVars>>

\* while self.is_running: if self.is_paused: sleep; continue
LoopWhile ==
    /\ pc = "while"
    /\ pc' = IF ~is_running THEN "finally"
             ELSE IF is_paused THEN "paused_sleep" ELSE "step"
    /\ UNCHANGED <<engineVars, idx, max_ticks, listener, compVars>>

\* time.sleep(0.1) of the paused loop
LoopPausedSleep ==
    /\ pc = "paused_sleep"
    /\ pc' = "while"
    /\ UNCHANGED <<engineVars, idx, max_ticks, listener, compVars>>

\* self.step(): its guard, then the clock advance
LoopStepEnter ==
    /\ pc = "step"
    /\ TickAllowed(tick_count)
    /\ IF StepGuard(State)
       THEN /\ Commit(StepBegin(State))
            /\ pc' = "agents"
            /\ idx' = 1
       ELSE /\ pc' = "after_step"
            /\ UNCHANGED <<engineVars, idx>>
    /\ UNCHANGED <<max_ticks, listener, compVars>>

\* one iteration of the loop over the actors
LoopAgent ==
    /\ pc = "agents"
    /\ idx <= Len(agents)
    /\ \E out \in Outcomes :
         LET r == AgentIter(State, agents[idx], out)
         IN  /\ Commit(r.st)
             /\ IF r.ret
                THEN pc' = "after_step" /\ idx' = 0
                ELSE pc' = pc /\ idx' = idx + 1
    /\ UNCHANGED <<max_ticks, listener, compVars>>

\* the rest of step() after the loop over the actors
LoopStepTail ==
    /\ pc = "agents"
    /\ idx > Len(agents)
    /\ Commit(StepTail(State))
    /\ pc' = "after_step"
    /\ idx' = 0
    /\ UNCHANGED <<max_ticks, listener, compVars>>

\* if max_ticks and self.tick_count >= max_ticks: stop(); break
\* otherwise the pacing sleep and the next iteration
LoopAfterStep ==
    /\ pc = "after_step"
    /\ IF max_ticks # 0 /\ tick_count >= max_ticks
       THEN Commit(EngStop(State)) /\ pc' = "finally"
       ELSE UNCHANGED engineVars /\ pc' = "while"
    /\ UNCHANGED <<idx, max_ticks, listener, compVars>>

\* finally: _restore_signal_handlers(); if self.is_running: self.stop()
LoopFinally ==
    /\ pc = "finally"
    /\ Commit(IF is_running THEN EngStop(State) ELSE State)
    /\ pc' = "exited"
    /\ UNCHANGED <<idx, max_ticks, listener, compVars>>

HandlersInstalled == pc \notin {"api", "init", "exited"}

\* _handle_sigint: the first interrupt toggles pause, a further one stops
HandleSigint(s) ==
    LET s1 == [s EXCEPT !.sigint_count = @ + 1]
    IN  IF s1.sigint_count = 1
        THEN (IF s1.is_paused THEN EngResume(s1) ELSE EngPause(s1))
        ELSE EngStop(s1)

Sigint ==
    /\ HandlersInstalled
    /\ sigint_count < MaxSigint
    /\ Commit(HandleSigint(State))
    /\ UNCHANGED <<loopVars, compVars>>

\* the SIGTERM handler: stop()
Sigterm ==
    /\ HandlersInstalled
    /\ stop_events < MaxStops
    /\ Commit(EngStop(State))
    /\ UNCHANGED <<loopVars, compVars>>

\* KeyboardListener._read_loop: the loop condition
ListenerCheck ==
    /\ listener = "check"
    /\ listener' = IF is_running /\ pc # "exited" THEN "read" ELSE "done"
    /\ UNCHANGED <<engineVars, pc, idx, max_ticks, compVars>>

\* KeyboardListener._read_loop: a key was read
KeyPause ==
    /\ listener = "read"
    /\ Commit(EngPause(State))
    /\ listener' = "check"
    /\ UNCHANGED <<pc, idx, max_ticks, compVars>>

KeyResume ==
    /\ listener = "read"
    /\ Commit(EngResume(State))
    /\ listener' = "check"
    /\ UNCHANGED <<pc, idx, max_ticks, compVars>>

KeyStop ==
    /\ listener = "read"
    /\ Commit(EngStop(State))
    /\ listener' = "done"
    /\ UNCHANGED <<pc, idx, max_ticks, compVars>>

AsyncRequest == Sigint \/ Sigterm \/ KeyPause \/ KeyResume \/ KeyStop

LoopNext ==
    \/ Restore
    \/ LoopStart
    \/ LoopWhile
    \/ LoopPausedSleep
    \/ LoopStepEnter
    \/ LoopAgent
    \/ LoopStepTail
    \/ LoopAfterStep
    \/ LoopFinally
    \/ Finalize
    \/ Sigint
    \/ Sigterm
    \/ ListenerCheck
    \/ KeyPause
    \/ KeyResume
    \/ KeyStop

LoopSpec == LoopInit /\ [][LoopNext]_vars

\* ---------------------------------------------------------------------
\* ThreadSpec: the run of LoopSpec at the grain of single statements where
\* another thread or a handler can run in between: run_loop installs the
\* handlers and then starts the engine, and pause() on the listener
\* thread tests its guard and then assigns
\* ---------------------------------------------------------------------
\* _install_signal_handlers()
LoopInstall ==
    /\ pc = "init"
    /\ Commit([State EXCEPT !.sigint_count = 0])
    /\ pc' = "installed"
    /\ UNCHANGED <<idx, max_ticks, listener, compVars>>

\* start(), the handlers being installed
LoopStartInstalled ==
    /\ pc = "installed"
    /\ Commit(EngStart(State))
    /\ pc' = "while"
    /\ UNCHANGED <<idx, max_ticks, listener, compVars>>

\* the key p was read; pause() on the listener thread: the test of its
\* guard
KeyPauseGuard ==
    /\ listener = "read"
    /\ listener' = IF is_running /\ ~is_paused THEN "pausing" ELSE "check"
    /\ UNCHANGED <<engineVars, pc, idx, max_ticks, compVars>>

\* pause() on the listener thread after its guard passed:
\* self.is_paused = True
KeyPauseWrite ==
    /\ listener = "pausing"
    /\ Commit([State EXCEPT !.is_paused = TRUE])
    /\ listener' = "check"
    /\ UNCHANGED <<pc, idx, max_ticks, compVars>>

ThreadNext ==
    \/ Restore
    \/ LoopInstall
    \/ LoopStartInstalled
    \/ LoopWhile
    \/ LoopPausedSleep
    \/ LoopStepEnter
    \/ LoopAgent
    \/ LoopStepTail
    \/ LoopAfterStep
    \/ LoopFinally
    \/ Finalize
    \/ Sigint
    \/ Sigterm
    \/ ListenerCheck
    \/ KeyPauseGuard
    \/ KeyPauseWrite
    \/ KeyResume
    \/ KeyStop

ThreadSpec == LoopInit /\ [][ThreadNext]_vars

\* ---------------------------------------------------------------------
\* Properties of Spec
\* ---------------------------------------------------------------------
OutcomeSeqs == [1..Len(AgentIds) -> Outcomes]

\* C1: a step() taken while running and not paused adds exactly 1 to
\* tick_count and one unit to the clock, a step() taken while paused,
\* stopped or not started changes neither; so on a scheduler that was not
\* restored, tick_count and the clock equal the number of such steps (which
\* the first actor's own step counter counts).
C1_StepCountsTicks ==
    /\ [][\A outs \in OutcomeSeqs :
            StepWith(outs) =>
                IF is_running /\ ~is_paused
                THEN /\ tick_count' = tick_count + 1
                     /\ current_time' = current_time + 1
                ELSE UNCHANGED <<tick_count, current_time>>]_vars
    /\ [](tick_count < SavedTick =>
            /\ tick_count = steps_taken[AgentIds[1]]
            /\ current_time = tick_count)

C1_Witness ==
    /\ tick_count = 2
    /\ steps_taken[AgentIds[1]] = 2
    /\ is_running /\ is_paused

\* C2: with a ceiling N >= 1, the step in which the N-th run-step in a row
\* raises leaves the scheduler stopped, and once it is stopped no call
\* changes tick_count.
C2_CeilingStops ==
    /\ [][(/\ is_running /\ ~is_paused
           /\ tick_count' = tick_count + 1
           /\ max_failures >= 1
           /\ fail_streak' >= max_failures)
          => (~is_running' /\ ~is_paused')]_vars
    /\ [][(~is_running /\ start_events > 0)
          => tick_count' = tick_count]_vars

C2_Witness ==
    /\ max_failures = 2
    /\ fail_streak = 2
    /\ tick_count = 2
    /\ steps_taken[AgentIds[2]] = 1
    /\ ~is_running
    /\ stop_events = 1

\* C3 (as claimed): every run-step that returns, with or without an
\* interaction, resets the consecutive-failure counter, so the counter is
\* the number of run-steps that raised since the last one that returned.
C3_ResetOnAnySuccess == consecutive_failures = fail_streak

\* C4 (as claimed): when checkpoint(), finalize() or stop() completes the
\* writer's buffer is empty and every interaction produced is persisted.
C4_FlushedBefore ==
    [][(Checkpoint \/ Finalize \/ Stop)
       => (buffer' = <<>> /\ persisted' = cached')]_vars

Lifecycle(run, paused, starts) ==
    IF run THEN (IF paused THEN "paused" ELSE "running")
    ELSE IF starts > 0 THEN "stopped" ELSE "idle"

LifecycleMoves ==
    {<<"idle", "running">>, <<"running", "paused">>,
     <<"paused", "running">>, <<"running", "stopped">>,
     <<"paused", "stopped">>}

\* C7 (as claimed): the lifecycle only moves idle -> running,
\* running <-> paused and running or paused -> stopped; stopped is
\* terminal.
C7_LifecycleOrder ==
    [][LET from == Lifecycle(is_running, is_paused, start_events)
           to == Lifecycle(is_running', is_paused', start_events')
       IN  from = to \/ <<from, to>> \in LifecycleMoves]_vars

\* C8 (as claimed): stop() on a stopped scheduler changes nothing that can
\* be observed and publishes no further simulation_stopped event.
C8_StopIdempotent ==
    [][(Stop /\ ~is_running /\ start_events > 0 /\ stop_events > 0)
       => UNCHANGED <<is_running, is_paused, tick_count, current_time,
                      persisted, stop_events>>]_vars

\* C10: a step in which some run-step raises without the ceiling being
\* reached still gives every actor its run-step, publishes the tick event
\* and runs the work of the tick's cadences.
C10_FailureIsolated ==
    [][\A outs \in OutcomeSeqs :
         (/\ StepWith(outs)
          /\ is_running /\ ~is_paused
          /\ \E i \in 1..Len(AgentIds) : outs[i] = "raise"
          /\ (max_failures = 0 \/ consecutive_failures' < max_failures))
         => /\ \A a \in AgentSet : steps_taken'[a] = steps_taken[a] + 1
            /\ tick_events' = Append(tick_events,
                                     <<tick_count + 1, current_time + 1>>)
            /\ ((tick_count + 1) % 10 = 0
                  => (tick_count + 1) \in metric_ticks' /\ buffer' = <<>>)
            /\ ((tick_count + 1) % 100 = 0
                  => /\ stored_meta' # <<>>
                     /\ stored_meta'[1].tick_count = tick_count + 1
                     /\ stored_meta'[1].current_time = current_time + 1)
    ]_vars

C10_Witness ==
    /\ tick_count = 100
    /\ consecutive_failures >= 1
    /\ is_running
    /\ steps_taken = [a \in AgentSet |-> 2]
    /\ Len(tick_events) = 2
    /\ 100 \in metric_ticks
    /\ stored_meta # <<>> /\ stored_meta[1].tick_count = 100

\* ---------------------------------------------------------------------
\* Properties of LoopSpec
\* ---------------------------------------------------------------------
\* C5: whatever pause and resume requests arrive, the tick events carry
\* consecutive tick numbers and clock values starting right after the tick
\* the run started from, and no tick that ran to its end is missing: the
\* last event is the current tick, or the one before while a tick is in
\* progress or after a tick cut short by the failure ceiling.
C5_TicksConsecutive ==
    LET n == Len(tick_events)
    IN  /\ \A i \in 2..n :
              /\ tick_events[i][1] = tick_events[i - 1][1] + 1
              /\ tick_events[i][2] = tick_events[i - 1][2] + 1
        /\ n > 0 => tick_events[1] \in {<<1, 1>>,
                                        <<SavedTick + 1, SavedTick + 1>>}
        /\ n > 0 => tick_events[n][1] \in {tick_count, tick_count - 1}
        /\ n = 0 => tick_count \in {0, 1, SavedTick, SavedTick + 1}
        /\ (max_failures = 0 /\ pc # "agents")
              => IF n = 0 THEN tick_count \in {0, SavedTick}
                 ELSE tick_events[n] = <<tick_count, current_time>>

C5_Witness ==
    /\ pc = "after_step"
    /\ is_running /\ is_paused
    /\ tick_events = <<<<1, 1>>, <<2, 2>>>>
    /\ tick_count = 2

\* C9 (as claimed): a pause, resume or stop request arriving while step()
\* is executing changes neither the lifecycle flags nor the writer in the
\* middle of the tick, and when the run loop has exited every interaction
\* produced is persisted.
C9_HonoredAtBoundary ==
    /\ [][(AsyncRequest /\ pc = "agents")
          => UNCHANGED <<is_running, is_paused, buffer, persisted>>]_vars
    /\ [](pc = "exited" => (buffer = <<>> /\ persisted = cached))

\* ---------------------------------------------------------------------
\* ReportSpec: one run after another, each by run_loop(max_ticks) and
\* finalize() on a newly constructed engine (cli.py run, api.py
\* run_simulation); no request arrives during a run
\* ---------------------------------------------------------------------
\* SimulationEngine.__init__ and the set-up as a record: a new engine with
\* ceiling mf over the simulation record params, store and meta being what
\* the storage holds
FreshEngine(mf, params, store, meta) ==
    [agents |-> AgentIds, is_running |-> FALSE, is_paused |-> FALSE,
     tick_count |-> 0, current_time |-> 0, max_failures |-> mf,
     consecutive_failures |-> 0, sigint_count |-> 0, buffer |-> <<>>,
     cached |-> <<>>, persisted |-> store, sim_params |-> params,
     stored_meta |-> meta, steps_taken |-> [a \in AgentSet |-> 0],
     tick_events |-> <<>>, start_events |-> 0, stop_events |-> 0,
     metric_ticks |-> {}, fail_streak |-> 0,
     memory |-> [a \in AgentSet |-> <<>>], latest_metrics |-> <<>>]

\* what the run-steps of a run without timed flushes can do
RunOutcomes == {"raise", "none", "ok"}

\* the body of `while self.is_running` from the k-th step on, plan[k]
\* being what the run-steps of that step do; cause tells whether step()
\* stopped the run at the failure ceiling or the loop at max_ticks
RECURSIVE RunLoopFrom(_, _, _, _)
RunLoopFrom(s, mt, plan, k) ==
    IF ~s.is_running \/ s.is_paused \/ k > Len(plan)
    THEN [st |-> s, cause |-> "none"]
    ELSE LET s1 == EngStep(s, plan[k])
         IN  IF ~s1.is_running
             THEN [st |-> IF mt # 0 /\ s1.tick_count >= mt
                          THEN EngStop(s1) ELSE s1,
                   cause |-> "ceiling"]
             ELSE IF mt # 0 /\ s1.tick_count >= mt
             THEN [st |-> EngStop(s1), cause |-> "max_ticks"]
             ELSE RunLoopFrom(s1, mt, plan, k + 1)

\* run_loop(max_ticks) from its first line to the end of its finally
RunLoop(s, mt, plan) ==
    LET r == RunLoopFrom(EngStart([s EXCEPT !.sigint_count = 0]),
                         mt, plan, 1)
    IN  [st |-> IF r.st.is_running THEN EngStop(r.st) ELSE r.st,
         cause |-> r.cause]

ReportInit ==
    /\ InitEngine
    /\ InitComponents
    /\ pc = "api"
    /\ idx = 0
    /\ max_ticks \in 1..MaxTicks
    /\ listener = "off"

\* engine.run_loop(max_ticks=duration); report = engine.finalize()
ReportRun ==
    /\ start_events = 0
    /\ \E plan \in [1..max_ticks -> [1..Len(agents) -> RunOutcomes]] :
         LET r == RunLoop(State, max_ticks, plan)
         IN  /\ Commit(EngFinalize(r.st))
             /\ reports' = LastN(Append(reports,
                                        [cause |-> r.cause,
                                         report |-> FinalReport(r.st)]), 2)
    /\ UNCHANGED <<loopVars, tripVars, actorVars, busVars, relVars,
                   sideVars>>

\* the next run: another simulation, engine and storage file
ReportNewEngine ==
    /\ start_events > 0
    /\ \E mf \in 0..MaxCeiling, mt \in 1..MaxTicks :
         /\ Commit(FreshEngine(mf, <<>>, <<>>, <<>>))
         /\ max_ticks' = mt
    /\ UNCHANGED <<pc, idx, listener, compVars>>

ReportNext ==
    \/ ReportRun
    \/ ReportNewEngine

ReportSpec == ReportInit /\ [][ReportNext]_vars

\* C11 (as claimed): the report of a run that step() stopped at the failure
\* ceiling differs from the report of a run that ended at its maximum tick
\* count, also when the two runs have the same interactions and metrics.
C11_FailedRunDistinguishable ==
    \A i, j \in 1..Len(reports) :
        (reports[i].cause = "ceiling" /\ reports[j].cause = "max_ticks")
            => reports[i].report # reports[j].report

\* ---------------------------------------------------------------------
\* BaseAgent: the memory list
\* ---------------------------------------------------------------------
\* evict_count of _evict_and_summarize_memory: max(1, int(size * 0.3))
EvictCount(cap) == IF (3 * cap) \div 10 >= 1 THEN (3 * cap) \div 10 ELSE 1

\* _evict_and_summarize_memory(): the evict_count oldest entries are
\* replaced by one summary entry that carries the stamp of the last of them
EvictAndSummarize(mem, cap) ==
    LET n == IF EvictCount(cap) <= Len(mem) THEN EvictCount(cap) ELSE Len(mem)
    IN  IF n = 0 THEN mem
        ELSE <<[role |-> "summary", stamp |-> mem[n].stamp]>>
             \o SubSeq(mem, n + 1, Len(mem))

\* add_memory(content, role, timestamp)
AddMemory(mem, entry, cap) ==
    LET m1 == Append(mem, entry)
    IN  IF Len(m1) > cap THEN EvictAndSummarize(m1, cap) ELSE m1

\* ---------------------------------------------------------------------
\* RoundTripSpec: an engine runs and checkpoints, then an engine is
\* constructed from the persisted simulation with the same actors spawned
\* and restored (tests/test_engine.py, cli.py run --resume)
\* ---------------------------------------------------------------------
\* the engine and its collaborators are in state s
EngineIs(s) ==
    /\ agents = s.agents
    /\ is_running = s.is_running
    /\ is_paused = s.is_paused
    /\ tick_count = s.tick_count
    /\ current_time = s.current_time
    /\ max_failures = s.max_failures
    /\ consecutive_failures = s.consecutive_failures
    /\ sigint_count = s.sigint_count
    /\ buffer = s.buffer
    /\ cached = s.cached
    /\ persisted = s.persisted
    /\ sim_params = s.sim_params
    /\ stored_meta = s.stored_meta
    /\ steps_taken = s.steps_taken
    /\ tick_events = s.tick_events
    /\ start_events = s.start_events
    /\ stop_events = s.stop_events
    /\ metric_ticks = s.metric_ticks
    /\ fail_streak = s.fail_streak
    /\ memory = s.memory
    /\ latest_metrics = s.latest_metrics

\* the checkpoint an earlier run may have left, with its memory tails
LongCheckpoints ==
    {<<>>,
     <<[tick_count |-> SavedTick, current_time |-> SavedTick,
        agent_memories |->
            [a \in AgentSet |->
                [i \in 1..SavedMemLen |->
                    [role |-> "internal", stamp |-> i]]]]>>}

\* the model stops adding to a memory MaxAdds entries after an empty one
\* or after the one an earlier run left
MemoryAllowed(n) ==
    \/ n < MaxAdds
    \/ (n >= SavedMemLen /\ n < SavedMemLen + MaxAdds)

\* tick count, clock and memory tails as checkpoint() reads them
CheckpointValues(s) ==
    <<[tick_count |-> s.tick_count, current_time |-> s.current_time,
       tails |-> [a \in SpawnedIds(s) |-> LastN(s.memory[a], MemoryTail)]]>>

RtInit ==
    /\ \E p \in LongCheckpoints : EngineIs(FreshEngine(0, p, <<>>, p))
    /\ InitComponents
    /\ pc = "api"
    /\ idx = 0
    /\ max_ticks = 0
    /\ listener = "off"

\* restore_from_checkpoint() during set-up
RtRestore ==
    /\ ~is_running /\ tick_count = 0 /\ start_events = 0
    /\ restore_result = "none"
    /\ Commit(EngRestore(State))
    /\ restore_result' = IF engine_no = 1 THEN restore_result
                         ELSE IF RestoreResult(State) THEN "true"
                         ELSE "false"
    /\ UNCHANGED <<loopVars, checkpointed, engine_no>>
    /\ UNCHANGED <<reportVars, actorVars, busVars, relVars,
                   sideVars>>

\* the engine constructed from the persisted simulation is followed up to
\* its restore
RtStart ==
    /\ engine_no = 1
    /\ Commit(EngStart(State))
    /\ UNCHANGED <<loopVars, compVars>>

\* stop() of the running engine
RtStop ==
    /\ engine_no = 1
    /\ is_running
    /\ stop_events < MaxStops
    /\ Commit(EngStop(State))
    /\ UNCHANGED <<loopVars, compVars>>

\* step(); its checkpoint at every 100th tick is the last thing it does.
\* The run-steps return None or an interaction: with no failure ceiling
\* configured a raising run-step changes the failure counter only, which
\* checkpoint() does not read
RtStep ==
    /\ engine_no = 1
    /\ TickAllowed(tick_count)
    /\ \E outs \in [1..Len(agents) -> RunOutcomes \ {"raise"}] :
         LET s1 == EngStep(State, outs)
         IN  /\ Commit(s1)
             /\ checkpointed' = IF s1.sim_params # sim_params
                                THEN CheckpointValues(s1) ELSE checkpointed
    /\ UNCHANGED <<loopVars, engine_no, restore_result>>
    /\ UNCHANGED <<reportVars, actorVars, busVars, relVars,
                   sideVars>>

\* an actor adds to its memory (a thought, a message, a lesson)
RtAddMemory ==
    /\ \E a \in AgentSet :
         /\ MemoryAllowed(Len(memory[a]))
         /\ Commit([State EXCEPT !.memory[a] =
                       AddMemory(@, [role |-> "internal",
                                     stamp |-> Len(@) + 1], capacity)])
    /\ UNCHANGED <<loopVars, compVars>>

RtCheckpoint ==
    /\ engine_no = 1
    /\ Commit(EngCheckpoint(State))
    /\ checkpointed' = CheckpointValues(State)
    /\ UNCHANGED <<loopVars, engine_no, restore_result>>
    /\ UNCHANGED <<reportVars, actorVars, busVars, relVars,
                   sideVars>>

\* sim2 = storage.get_simulation(sim.id); SimulationEngine(sim2, storage)
\* and the same actors spawned
RtReconstruct ==
    /\ engine_no = 1
    /\ Commit(FreshEngine(max_failures, stored_meta, persisted, stored_meta))
    /\ engine_no' = 2
    /\ UNCHANGED <<loopVars, checkpointed, restore_result>>
    /\ UNCHANGED <<reportVars, actorVars, busVars, relVars,
                   sideVars>>

RtNext ==
    \/ RtRestore
    \/ RtStart
    \/ RtStop
    \/ RtStep
    \/ RtAddMemory
    \/ RtCheckpoint
    \/ RtReconstruct

RoundTripSpec == RtInit /\ [][RtNext]_vars

\* the engine constructed from the persisted simulation is run on: start()
ContStart ==
    /\ engine_no = 2
    /\ Commit(EngStart(State))
    /\ UNCHANGED <<loopVars, compVars>>

\* step() of the second engine
ContStep ==
    /\ engine_no = 2
    /\ TickAllowed(tick_count)
    /\ \E outs \in [1..Len(agents) -> RunOutcomes \ {"raise"}] :
         Commit(EngStep(State, outs))
    /\ UNCHANGED <<loopVars, compVars>>

\* stop() of the second engine
ContStop ==
    /\ engine_no = 2
    /\ is_running
    /\ stop_events < MaxStops
    /\ Commit(EngStop(State))
    /\ UNCHANGED <<loopVars, compVars>>

\* the actors' own memory plays no part in what is logged
ResumeNext ==
    \/ RtRestore
    \/ RtStart
    \/ RtStop
    \/ RtStep
    \/ RtCheckpoint
    \/ RtReconstruct
    \/ ContStart
    \/ ContStep
    \/ ContStop

\* a run that is stopped, constructed again from the storage, restored
\* and continued
ResumeSpec == RtInit /\ [][ResumeNext]_vars

\* C12: when the first engine has taken a checkpoint, the engine
\* constructed from the persisted simulation gets true from
\* restore_from_checkpoint() and then has the tick count, the clock and
\* every actor's last 20 memory entries of that checkpoint.
C12_RoundTrip ==
    [][(RtRestore /\ engine_no = 2 /\ checkpointed # <<>>)
       => /\ restore_result' = "true"
          /\ tick_count' = checkpointed[1].tick_count
          /\ current_time' = checkpointed[1].current_time
          /\ \A a \in AgentSet :
               LastN(memory'[a], MemoryTail) = checkpointed[1].tails[a]]_vars

C12_Witness ==
    /\ engine_no = 2
    /\ restore_result = "true"
    /\ checkpointed # <<>>
    /\ tick_count = SavedTick + 1
    /\ tick_count = checkpointed[1].tick_count
    /\ Len(memory[AgentIds[1]]) = MemoryTail
    /\ memory[AgentIds[1]][1].stamp = SavedMemLen + MaxAdds - MemoryTail + 1
    /\ memory[AgentIds[1]][MemoryTail].stamp = SavedMemLen + MaxAdds

\* ------------------------------------------------------------------
\* Event bus (events.py).  Every subscribe call registers a handler of
\* its own; a handler either returns or raises an Exception.
\* ------------------------------------------------------------------

\* the engine as constructed, with no run in progress
IdleEngine ==
    /\ EngineIs(FreshEngine(0, <<>>, <<>>, <<>>))
    /\ pc = "api"
    /\ idx = 0
    /\ max_ticks = 0
    /\ listener = "off"

\* try: callback(event) without the except clause
TryCallUncaught(cb) == cb.raises

\* try: callback(event) / except Exception: logger.error(...)
\* the value is whether an exception leaves the try statement
TryCall(cb) == FALSE

\* for callback in callbacks: ... ; an exception that leaves the loop body
\* ends the loop
RECURSIVE Notify(_, _)
Notify(callbacks, acc) ==
    IF callbacks = <<>> \/ acc.raised THEN acc
    ELSE LET cb == Head(callbacks)
         IN Notify(Tail(callbacks),
                   [calls |-> Append(acc.calls, cb.id),
                    raised |-> TryCall(cb)])

\* the two loops of publish in the opposite order
PublishGlobalFirst(subs, alls, ty) ==
    Notify(subs[ty], Notify(alls, [calls |-> <<>>, raised |-> FALSE]))

\* EventBus.publish
Publish(subs, alls, ty) ==
    Notify(alls, Notify(subs[ty], [calls |-> <<>>, raised |-> FALSE]))

BusInit ==
    /\ IdleEngine
    /\ InitComponents

\* bus.subscribe(ty, callback)
BusSubscribe ==
    /\ Len(registration) < MaxSubs
    /\ \E ty \in EventTypes, r \in BOOLEAN :
         LET cb == [id |-> Len(registration) + 1, raises |-> r]
         IN /\ subscribers' = [subscribers EXCEPT ![ty] = Append(@, cb)]
            /\ registration' = Append(registration,
                                      [id |-> cb.id, scope |-> ty,
                                       raises |-> r])
    /\ UNCHANGED <<all_subscribers, delivered, propagated, last_event>>
    /\ UNCHANGED <<engineVars, loopVars, reportVars, tripVars, actorVars,
                   relVars,
                   sideVars>>

\* bus.subscribe_all(callback)
BusSubscribeAll ==
    /\ Len(registration) < MaxSubs
    /\ \E r \in BOOLEAN :
         LET cb == [id |-> Len(registration) + 1, raises |-> r]
         IN /\ all_subscribers' = Append(all_subscribers, cb)
            /\ registration' = Append(registration,
                                      [id |-> cb.id, scope |-> "*",
                                       raises |-> r])
    /\ UNCHANGED <<subscribers, delivered, propagated, last_event>>
    /\ UNCHANGED <<engineVars, loopVars, reportVars, tripVars, actorVars,
                   relVars,
                   sideVars>>

\* bus.publish(ty, payload, timestamp)
BusPublish(ty) ==
    /\ LET r == Publish(subscribers, all_subscribers, ty)
       IN /\ delivered' = r.calls
          /\ propagated' = r.raised
    /\ last_event' = ty
    /\ UNCHANGED <<subscribers, all_subscribers, registration>>
    /\ UNCHANGED <<engineVars, loopVars, reportVars, tripVars, actorVars,
                   relVars,
                   sideVars>>

BusPublishAny == \E ty \in EventTypes : BusPublish(ty)

BusNext ==
    \/ BusSubscribe
    \/ BusSubscribeAll
    \/ BusPublishAny

BusSpec == BusInit /\ [][BusNext]_vars

\* number of calls of the handler registered i-th during the last publish
TimesCalled(calls, i) == Cardinality({k \in 1..Len(calls) : calls[k] = i})

\* C13: whenever publish runs with at least one matching handler that
\* raises, every handler subscribed to the event's type and every wildcard
\* handler is called exactly once, no other handler is called, and publish
\* returns normally.
C13_HandlerIsolation ==
    [][\A ty \in EventTypes :
         (BusPublish(ty)
          /\ \E i \in 1..Len(registration) :
               registration[i].scope \in {ty, "*"} /\ registration[i].raises)
         => /\ ~propagated'
            /\ \A i \in 1..Len(registration) :
                 TimesCalled(delivered', i) =
                     IF registration[i].scope \in {ty, "*"} THEN 1 ELSE 0]_vars

\* a raising handler between two handlers of the same type, followed by a
\* wildcard handler: all four were called
C13_Witness ==
    /\ last_event = "tick"
    /\ Len(registration) = 4
    /\ registration[1].scope = "tick" /\ ~registration[1].raises
    /\ registration[2].scope = "tick" /\ registration[2].raises
    /\ registration[3].scope = "tick" /\ ~registration[3].raises
    /\ registration[4].scope = "*" /\ ~registration[4].raises
    /\ delivered = <<1, 2, 3, 4>>
    /\ ~propagated

\* ids of the registrations accepted by the test, in registration order
RECURSIVE IdsWhere(_, _)
IdsWhere(regs, scopes) ==
    IF regs = <<>> THEN <<>>
    ELSE IF Head(regs).scope \in scopes
         THEN <<Head(regs).id>> \o IdsWhere(Tail(regs), scopes)
         ELSE IdsWhere(Tail(regs), scopes)

\* C14 (as claimed): publish calls the matching handlers, type-specific and
\* wildcard alike, in the order in which they were registered.
C14_RegistrationOrder ==
    [][\A ty \in EventTypes :
         BusPublish(ty) => delivered' = IdsWhere(registration, {ty, "*"})]_vars

\* C14 (amended): publish calls first the handlers subscribed to the
\* event's type, in the order in which they were registered, and then the
\* wildcard handlers, in the order in which they were registered.
C14_TypedThenWildcard ==
    [][\A ty \in EventTypes :
         BusPublish(ty) =>
             delivered' = IdsWhere(registration, {ty})
                          \o IdsWhere(registration, {"*"})]_vars

\* a wildcard handler registered first is called after the two
\* type-specific handlers registered after it
C14_Witness ==
    /\ last_event = "metric_changed"
    /\ Len(registration) >= 3
    /\ registration[1].scope = "*"
    /\ registration[2].scope = "metric_changed"
    /\ registration[3].scope = "metric_changed"
    /\ delivered = <<2, 3, 1>>

\* ---------------------------------------------------------------------
\* GenericAgent: one actor, its reasoning provider and its run-step
\* ---------------------------------------------------------------------
Self == AgentIds[1]

\* StakeholderType values; "customer" stands for the types no restricted
\* action belongs to
ActorTypes == {"customer", "investor", "regulator", "employee"}

\* a JSON value as far as reason() looks at it: its kind, whether it is
\* empty (zero for a number), and for an object the action_type ("" when
\* the key is absent), the action_details ("absent", "object" or "other")
\* and whether it carries a strategy_update
Json(kind, empty, action, details, strategy) ==
    [kind |-> kind, empty |-> empty, action_type |-> action,
     details |-> details, strategy_update |-> strategy]

Obj(action, details, strategy) ==
    Json("object", FALSE, action, details, strategy)

Plain(kind, empty) == Json(kind, empty, "", "absent", FALSE)

\* Python None and JSON null
None == Plain("null", TRUE)

\* the text has no such part / the part is not JSON
NoMatch == Plain("nomatch", TRUE)
Invalid == Plain("invalid", TRUE)

PayloadActions == {"wait", "buy", "invest", "INVEST", "regulate", "code"}

JsonObjects ==
    {Obj(a, "object", FALSE) : a \in PayloadActions}
    \cup {Obj("buy", "absent", FALSE), Obj("buy", "other", FALSE),
          Obj("buy", "object", TRUE), Obj("", "absent", FALSE),
          Plain("object", TRUE)}

JsonNonObjects ==
    {Plain(k, e) : k \in {"array", "number", "string"}, e \in BOOLEAN}
    \cup {Plain("true", FALSE), Plain("false", TRUE), None}

\* a response text: what json.loads gives on the whole text, on the body
\* of its first ```json block and on its first "{" to last "}" part, and
\* whether the text is blank
Text(whole, fenced, braced, blank) ==
    [whole |-> whole, fenced |-> fenced, braced |-> braced, blank |-> blank]

Texts ==
    {Text(v, NoMatch, NoMatch, FALSE) : v \in JsonObjects \cup JsonNonObjects}
    \cup {Text(Invalid, v, NoMatch, FALSE) :
              v \in {Obj("buy", "object", FALSE), Plain("array", FALSE),
                     Invalid}}
    \cup {Text(Invalid, NoMatch, v, FALSE) :
              v \in {Obj("buy", "object", FALSE), Invalid}}
    \cup {Text(Invalid, NoMatch, NoMatch, b) : b \in BOOLEAN}

\* extract_json(text)
ExtractJson(text) ==
    IF text.whole # Invalid THEN text.whole
    ELSE IF text.fenced \notin {NoMatch, Invalid} THEN text.fenced
    ELSE IF text.braced \notin {NoMatch, Invalid} THEN text.braced
    ELSE None

\* bool(value)
Truthy(v) ==
    CASE v.kind \in {"null", "false"} -> FALSE
      [] v.kind = "true" -> TRUE
      [] OTHER -> ~v.empty

\* what one attempt of the HTTP call does: a 200 answer, an error status
\* (one of retryable_status_codes; any other error status takes the same
\* course through raise_for_status), or a ConnectError / TimeoutException
AttemptOutcomes == {"ok", "retryable_status", "network"}

\* OllamaProvider.async_completion from the given attempt on; every failed
\* attempt but the last sleeps and continues, the last one raises
RECURSIVE AsyncCompletion(_, _, _)
AsyncCompletion(outs, attempt, text) ==
    IF attempt >= MaxRetries THEN [kind |-> "raise", error |-> "RuntimeError"]
    ELSE IF outs[attempt + 1] = "ok"
    THEN IF text.blank THEN [kind |-> "raise", error |-> "ValueError"]
         ELSE [kind |-> "text", error |-> ""]
    ELSE IF attempt < MaxRetries - 1
    THEN AsyncCompletion(outs, attempt + 1, text)
    ELSE [kind |-> "raise",
          error |-> IF outs[attempt + 1] = "network" THEN "TransportError"
                    ELSE "HTTPStatusError"]

\* "base": LLMProvider.async_completion, one call of completion() whose
\* result or exception is passed on; "ollama": OllamaProvider
Providers == {"base", "ollama"}

Completion(prov, outs, text) ==
    IF prov = "ollama" THEN AsyncCompletion(outs, 0, text)
    ELSE IF outs[1] = "ok" THEN [kind |-> "text", error |-> ""]
    ELSE [kind |-> "raise",
          error |-> IF outs[1] = "network" THEN "TransportError"
                    ELSE "HTTPStatusError"]

\* the provider calls reason() awaits: one, for the decision prompt
ReasonQueries == <<"decision">>

\* the decision reason() falls back to
FallbackDecision == Obj("wait", "object", FALSE)

\* reason() after the provider returned text: adds are the roles of the
\* memories added before it returns or raises
Reason(text) ==
    LET parsed == ExtractJson(text)
        decision == IF ~Truthy(parsed) THEN FallbackDecision ELSE parsed
    IN  IF decision.kind # "object"
        THEN [kind |-> "raise", error |-> "AttributeError",
              action_type |-> "", adds |-> <<>>]
        ELSE LET adds == IF decision.strategy_update
                         THEN <<"internal", "strategy">>
                         ELSE <<"internal">>
             IN  IF decision.details = "other"
                 THEN [kind |-> "raise", error |-> "AttributeError",
                       action_type |-> "", adds |-> adds]
                 ELSE [kind |-> "outcome", error |-> "",
                       action_type |-> IF decision.action_type = ""
                                       THEN "wait"
                                       ELSE decision.action_type,
                       adds |-> adds]

\* str.lower() on the action strings of PayloadActions
Lower(action) == IF action = "INVEST" THEN "invest" ELSE action

\* GenericAgent._check_role_integrity
CheckRoleIntegrity(action, role) ==
    ~ \/ (Lower(action) = "invest" /\ role # "investor")
      \/ (Lower(action) = "regulate" /\ role # "regulator")
      \/ (Lower(action) = "code" /\ role # "employee")

\* add_memory for each of the roles in turn, the k-th add of the actor
\* being stamped k
RECURSIVE AddAll(_, _, _, _)
AddAll(mem, roles, count, cap) ==
    IF roles = <<>> THEN mem
    ELSE AddAll(AddMemory(mem, [role |-> Head(roles), stamp |-> count + 1],
                          cap),
                Tail(roles), count + 1, cap)

HasInternal(mem) == \E i \in 1..Len(mem) : mem[i].role = "internal"

\* the reflection of run_step: every tenth step, with five memories or
\* more and a decision among the last ten, a reflection is put in front
Reflect(mem, steps, count) ==
    IF steps % ReflectEvery = 0 /\ Len(mem) >= ReflectMinMemory
       /\ HasInternal(LastN(mem, 10))
    THEN <<[role |-> "reflection", stamp |-> count + 1]>> \o mem
    ELSE mem

\* one iteration of step()'s loop over the actors for an actor whose
\* run_step is BaseAgent.run_step: the call makes a coroutine object and
\* runs nothing of run_step; the object is truthy, so the counter is reset
\* and the object goes to the writer and the cache
AgentIterCoroutine(s, a) ==
    LET log == <<a, "coroutine">>
        s2 == WriterAdd([s EXCEPT !.consecutive_failures = 0,
                                  !.fail_streak = 0], log, FALSE)
    IN  [s2 EXCEPT !.cached = Append(@, log)]

ActorInit ==
    /\ \E n \in {0, SavedSteps} :
         /\ EngineIs([EngStart(FreshEngine(0, <<>>, <<>>, <<>>))
                        EXCEPT !.steps_taken[Self] = n])
         /\ outcome = IF n = 0 THEN [kind |-> "none", action |-> "",
                                     error |-> ""]
                      ELSE [kind |-> "raise", action |-> "",
                            error |-> "HTTPStatusError"]
    /\ pc = "api"
    /\ idx = 0
    /\ max_ticks = 0
    /\ listener = "off"
    /\ InitSide
    /\ InitReport
    /\ InitTrip
    /\ InitBus
    /\ InitRel
    /\ \/ capacity = DefaultMemorySize /\ actor_type \in ActorTypes
       \/ capacity \in 1..MaxCapacity /\ actor_type = "customer"
    /\ inbox = <<>>
    /\ published = <<>>
    /\ added = 0
    /\ step_error = FALSE
    /\ queries = 0

\* agent.add_memory(content)
ActorAddMemory ==
    /\ ~step_error
    /\ added < MaxAdded
    /\ Commit([State EXCEPT !.memory[Self] =
                  AddAll(@, <<"observation">>, added, capacity)])
    /\ added' = added + 1
    /\ UNCHANGED <<capacity, actor_type, inbox, outcome, published,
                   step_error, queries>>
    /\ UNCHANGED <<loopVars, reportVars, tripVars, busVars, relVars,
                   sideVars>>

\* _on_message(event) for a message addressed to the actor
ActorOnMessage ==
    /\ ~step_error
    /\ added < MaxAdded
    /\ inbox' = Append(IF Len(inbox) >= MaxInboxSize THEN Tail(inbox)
                       ELSE inbox, "message")
    /\ Commit([State EXCEPT !.memory[Self] =
                  AddAll(@, <<"message">>, added, capacity)])
    /\ added' = added + 1
    /\ UNCHANGED <<capacity, actor_type, outcome, published, step_error,
                   queries>>
    /\ UNCHANGED <<loopVars, reportVars, tripVars, busVars, relVars,
                   sideVars>>

\* await agent.run_step(world_state, timestamp), the provider being prov,
\* its attempts doing outs and its answer being text
ActorRunStepWith(prov, outs, text) ==
    /\ ~step_error
    /\ steps_taken[Self] % SavedSteps < MaxRunSteps
    /\ LET n == steps_taken[Self] + 1
           mem1 == Reflect(memory[Self], n, added)
           count == added + Len(mem1) - Len(memory[Self])
           got == Completion(prov, outs, text)
           r == IF got.kind = "raise"
                THEN [kind |-> "raise", error |-> got.error,
                      action_type |-> "", adds |-> <<>>]
                ELSE Reason(text)
           ok == r.kind = "outcome"
                 /\ CheckRoleIntegrity(r.action_type, actor_type)
       IN /\ Commit([State EXCEPT
                        !.steps_taken[Self] = n,
                        !.memory[Self] = AddAll(mem1, r.adds, count,
                                                capacity)])
          /\ count + Len(r.adds) <= MaxAdded
          /\ added' = count + Len(r.adds)
          /\ outcome' =
               IF ok THEN [kind |-> "interaction",
                           action |-> r.action_type, error |-> ""]
               ELSE [kind |-> "raise", action |-> "",
                     error |-> IF r.kind = "raise" THEN r.error
                               ELSE "RuntimeError"]
          /\ published' = IF ok THEN <<r.action_type>> ELSE <<>>
    /\ inbox' = <<>>
    /\ queries' = Len(ReasonQueries)
    /\ UNCHANGED <<capacity, actor_type, step_error>>
    /\ UNCHANGED <<loopVars, reportVars, tripVars, busVars, relVars,
                   sideVars>>

\* the inputs of a run-step: every text with a provider that answers at
\* once, and every course of the attempts with a text that is a decision
\* (the base provider makes one attempt)
AllOk == [i \in 1..MaxRetries |-> "ok"]

RunInputs ==
    {<<"ollama", AllOk, text>> : text \in Texts}
    \cup {<<"base", AllOk, Text(Invalid, NoMatch, NoMatch, b)>> :
              b \in BOOLEAN}
    \cup {<<"ollama", outs, Text(Obj("buy", "object", FALSE), NoMatch,
                                NoMatch, FALSE)>> :
              outs \in [1..MaxRetries -> AttemptOutcomes]}
    \cup {<<"base", [i \in 1..MaxRetries |-> o],
            Text(Obj("buy", "object", FALSE), NoMatch, NoMatch, FALSE)>> :
              o \in AttemptOutcomes}

ActorRunStep ==
    \E in \in RunInputs : ActorRunStepWith(in[1], in[2], in[3])

\* the first engine.step() with the actor spawned in the engine, the
\* provider being ready to answer text: the AttributeError of
\* interaction.agent_id on the coroutine object leaves step() and ends
\* the run
ActorEngineStepWith(text) ==
    /\ StepGuard(State)
    /\ ~step_error
    /\ added = 0
    /\ Commit(AgentIterCoroutine(StepBegin(State), Self))
    /\ step_error' = TRUE
    /\ UNCHANGED <<capacity, actor_type, inbox, outcome, published, added,
                   queries>>
    /\ UNCHANGED <<loopVars, reportVars, tripVars, busVars, relVars,
                   sideVars>>

\* the texts that are a decision for one of the actions
DecisionTexts ==
    {Text(Obj(a, "object", FALSE), NoMatch, NoMatch, FALSE) :
         a \in PayloadActions}

ActorEngineStep == \E text \in DecisionTexts : ActorEngineStepWith(text)

ActorNext ==
    \/ ActorAddMemory
    \/ ActorOnMessage
    \/ ActorRunStep
    \/ ActorEngineStep

ActorSpec == ActorInit /\ [][ActorNext]_vars

\* no JSON object can be extracted from the text
Malformed(text) == ExtractJson(text).kind # "object"

\* C15 (as claimed): whenever the provider returns a text from which no
\* JSON object can be had, the run-step raises nothing from reason() and
\* its outcome is the action "wait".
C15_MalformedFallsBackToWait ==
    [][\A in \in RunInputs :
         (ActorRunStepWith(in[1], in[2], in[3])
          /\ Completion(in[1], in[2], in[3]).kind = "text"
          /\ Malformed(in[3]))
         => (outcome'.kind = "interaction" /\ outcome'.action = "wait")]_vars

\* every attempt of the provider failed with a transient error
AllTransient(outs) ==
    \A i \in 1..MaxRetries : outs[i] \in {"retryable_status", "network"}

\* C16 (as claimed): whenever every attempt of the provider fails with a
\* timeout, a connection error or a retryable status, run_step does not
\* raise and its outcome is the action "wait".
C16_TransientFailureAbsorbed ==
    [][\A in \in RunInputs :
         (ActorRunStepWith(in[1], in[2], in[3])
          /\ in[1] = "ollama" /\ AllTransient(in[2]))
         => (outcome'.kind = "interaction" /\ outcome'.action = "wait")]_vars

\* the text is an object asking for an action the role may not take
Forbidden(text, role) ==
    /\ ~Malformed(text)
    /\ ExtractJson(text).action_type \in PayloadActions
    /\ ~CheckRoleIntegrity(ExtractJson(text).action_type, role)

\* C17 (as claimed): whenever the engine steps an actor whose decision is
\* an action outside its permitted set, nothing is handed to the writer or
\* the cache and the consecutive-failure counter goes up by one.
C17_ForbiddenActionCounted ==
    [][\A text \in DecisionTexts :
         (ActorEngineStepWith(text) /\ Forbidden(text, actor_type))
         => /\ consecutive_failures' = consecutive_failures + 1
            /\ buffer' = buffer
            /\ cached' = cached]_vars

\* C18 (as claimed): the memory list never holds more entries than the
\* configured capacity.
C18_MemoryWithinCapacity == Len(memory[Self]) <= capacity

\* ---------------------------------------------------------------------
\* RelationshipGraph: strengths are kept in thousandths, Unit being 1.0
\* ---------------------------------------------------------------------
Unit == 1000

\* sources and targets of the edges that are updated: the actors, and the
\* default interaction target that is no actor
RelPairs ==
    {<<s, g>> \in AgentSet \X (AgentSet \cup {"startup"}) : s # g}

\* max(-1.0, min(1.0, x))
Clamp(x) == IF x > Unit THEN Unit ELSE IF x < -Unit THEN -Unit ELSE x

\* the edge add_or_update creates when there is none
NewEdge(ty) == [type |-> ty, strength |-> 0, interactions |-> 0]

\* add_or_update storing strength + delta as it is
AddOrUpdateUnclamped(e, pair, ty, delta) ==
    LET old == IF pair \in DOMAIN e THEN e[pair] ELSE NewEdge(ty)
        new == [type |-> ty, strength |-> old.strength + delta,
                interactions |-> old.interactions + 1]
    IN  [p \in DOMAIN e \cup {pair} |-> IF p = pair THEN new ELSE e[p]]

\* add_or_update(source_id, target_id, rel_type, strength_delta)
AddOrUpdate(e, pair, ty, delta) ==
    LET old == IF pair \in DOMAIN e THEN e[pair] ELSE NewEdge(ty)
        new == [type |-> ty, strength |-> Clamp(old.strength + delta),
                interactions |-> old.interactions + 1]
    IN  [p \in DOMAIN e \cup {pair} |-> IF p = pair THEN new ELSE e[p]]

PositiveActions == {"invest", "buy", "partner", "send_message", "collaborate"}
NegativeActions == {"complain", "compete", "criticize", "sell"}

\* update_from_interaction(agent_id, target_id, action)
UpdateFromInteraction(e, pair, action) ==
    IF action \in PositiveActions
    THEN AddOrUpdate(e, pair, "alliance", Unit \div 10)
    ELSE IF action \in NegativeActions
    THEN AddOrUpdate(e, pair, "rivalry", -(Unit \div 10))
    ELSE AddOrUpdate(e, pair, "neutral", 0)

\* the decay factors applied, in thousandths; 995 is the default of step()
DecayFactors == {1, 500, 995}

\* strength * f for a factor f of 0 < f < 1, the product being rounded
\* towards zero
Decay(strength, f) ==
    IF strength >= 0 THEN (strength * f) \div Unit
    ELSE -(((-strength) * f) \div Unit)

\* relationships.tick(decay_factor): every edge's strength is multiplied
\* by the factor
GraphTick(e, f) ==
    [p \in DOMAIN e |-> [e[p] EXCEPT !.strength = Decay(@, f)]]

RECURSIVE TotalInteractions(_, _)
TotalInteractions(e, pairs) ==
    IF pairs = {} THEN 0
    ELSE LET p == CHOOSE q \in pairs : TRUE
         IN  e[p].interactions + TotalInteractions(e, pairs \ {p})

RelInit ==
    /\ IdleEngine
    /\ InitComponents

\* graph.add_or_update(...) called directly, with deltas inside and
\* outside the range of a strength
RelAddOrUpdate ==
    /\ TotalInteractions(edges, DOMAIN edges) < MaxUpdates
    /\ \E pair \in RelPairs, ty \in {"alliance", "rivalry"},
          delta \in {-(5 * Unit) \div 2, -Unit \div 2, Unit \div 2,
                     (5 * Unit) \div 2} :
         edges' = AddOrUpdate(edges, pair, ty, delta)
    /\ UNCHANGED <<coalitions, decays, detections>>
    /\ UNCHANGED <<engineVars, loopVars, reportVars, tripVars, actorVars,
                   busVars,
                   sideVars>>

\* step(): relationships.update_from_interaction(agent_id, target, action)
RelInteraction ==
    /\ TotalInteractions(edges, DOMAIN edges) < MaxUpdates
    /\ \E pair \in RelPairs, action \in {"buy", "complain", "wait"} :
         edges' = UpdateFromInteraction(edges, pair, action)
    /\ UNCHANGED <<coalitions, decays, detections>>
    /\ UNCHANGED <<engineVars, loopVars, reportVars, tripVars, actorVars,
                   busVars,
                   sideVars>>

\* step(): relationships.tick(decay)
RelTick(f) ==
    /\ decays < MaxDecays
    /\ edges' = GraphTick(edges, f)
    /\ decays' = decays + 1
    /\ UNCHANGED <<coalitions, detections>>
    /\ UNCHANGED <<engineVars, loopVars, reportVars, tripVars, actorVars,
                   busVars,
                   sideVars>>

RelTickAny == \E f \in DecayFactors : RelTick(f)

RelNext ==
    \/ RelAddOrUpdate
    \/ RelInteraction
    \/ RelTickAny

RelSpec == RelInit /\ [][RelNext]_vars

Abs(x) == IF x < 0 THEN -x ELSE x

\* C19: every edge strength is within [-1, 1] after any sequence of
\* add_or_update, update_from_interaction and decay calls, and a decay with
\* a factor between 0 and 1 leaves every strength with a magnitude no
\* greater than before and with no opposite sign.
C19_StrengthBounded ==
    /\ [](\A p \in DOMAIN edges :
            -Unit <= edges[p].strength /\ edges[p].strength <= Unit)
    /\ [][\A f \in DecayFactors :
            RelTick(f) =>
                \A p \in DOMAIN edges :
                    /\ Abs(edges'[p].strength) <= Abs(edges[p].strength)
                    /\ edges[p].strength >= 0 => edges'[p].strength >= 0
                    /\ edges[p].strength <= 0 => edges'[p].strength <= 0]_vars

\* an edge driven to the upper limit by one delta of 2.5 and an edge driven
\* to the lower limit by one delta of -2.5, both decayed once by 0.995
C19_Witness ==
    /\ decays > 0
    /\ \E p, q \in DOMAIN edges :
         /\ edges[p].strength = 995 /\ edges[p].interactions = 1
         /\ edges[q].strength = -995 /\ edges[q].interactions = 1

\* ---------------------------------------------------------------------
\* CoalitionManager.detect_coalitions on a graph of alliances among three
\* actors
\* ---------------------------------------------------------------------
Roster == {"a1", "a2", "a3"}

\* the orders in which the ids of the roster can be passed
RosterOrders ==
    {o \in [1..Cardinality(Roster) -> Roster] :
         \A i, j \in 1..Cardinality(Roster) : o[i] = o[j] => i = j}

\* get_allies(agent_id, threshold)
GetAllies(e, a, threshold) ==
    {p[2] : p \in {q \in DOMAIN e : /\ q[1] = a
                                    /\ e[q].type = "alliance"
                                    /\ e[q].strength >= threshold}}

\* the while loop over the frontier; the cluster it ends with is the same
\* for every order in which the frontier is popped
RECURSIVE GrowCluster(_, _, _, _)
GrowCluster(e, ids, cluster, frontier) ==
    IF frontier = {} THEN cluster
    ELSE LET ally == CHOOSE x \in frontier : TRUE
             rest == frontier \ {ally}
         IN  IF ally \in cluster THEN GrowCluster(e, ids, cluster, rest)
             ELSE LET grown == cluster \cup {ally}
                      overlap == GetAllies(e, ally, MinStrength)
                                 \cap (ids \ grown)
                  IN  GrowCluster(e, ids, grown, rest \cup overlap)

\* get_relationship(a, b)["strength"] summed over the ordered pairs
RECURSIVE SumStrength(_, _)
SumStrength(e, pairs) ==
    IF pairs = {} THEN 0
    ELSE LET p == CHOOSE q \in pairs : TRUE
         IN  (IF p \in DOMAIN e THEN e[p].strength ELSE 0)
             + SumStrength(e, pairs \ {p})

\* Coalition(name, members) with its strength, the name being the
\* position in the list
NewCoalition(e, cluster) ==
    LET n == Cardinality(cluster)
        d == IF n * (n - 1) >= 1 THEN n * (n - 1) ELSE 1
        s == SumStrength(e, {q \in cluster \X cluster : q[1] # q[2]})
    IN  [members |-> cluster,
         strength |-> IF s >= 0 THEN s \div d ELSE -((-s) \div d)]

\* `for agent_id in agent_ids` from position i on
RECURSIVE DetectFrom(_, _, _, _, _)
DetectFrom(e, order, i, visited, found) ==
    IF i > Len(order) THEN found
    ELSE LET agent_id == order[i]
             ids == {order[k] : k \in 1..Len(order)}
             allies == GetAllies(e, agent_id, MinStrength)
         IN  IF agent_id \in visited \/ allies = {}
             THEN DetectFrom(e, order, i + 1, visited, found)
             ELSE LET cluster == GrowCluster(e, ids, {agent_id}, allies)
                  IN  IF Cardinality(cluster) >= 2
                      THEN DetectFrom(e, order, i + 1,
                                      visited \cup cluster,
                                      Append(found, NewCoalition(e, cluster)))
                      ELSE DetectFrom(e, order, i + 1, visited, found)

\* detect_coalitions(graph, agent_ids)
DetectCoalitions(e, order) == DetectFrom(e, order, 1, {}, <<>>)

\* one add_or_update of 0.5, one positive interaction
StrongAlliance == [type |-> "alliance", strength |-> Unit \div 2,
                   interactions |-> 1]
WeakAlliance == [type |-> "alliance", strength |-> Unit \div 10,
                 interactions |-> 1]

\* the graphs detection is run on: between any two actors no edge, a weak
\* alliance or a strong one, in either direction, and from any actor to
\* the interaction target "startup", which is no actor, no edge or a
\* strong alliance
CoalInit ==
    /\ IdleEngine
    /\ InitSide
    /\ InitReport
    /\ InitTrip
    /\ InitActor
    /\ InitBus
    /\ \E dom \in SUBSET {q \in Roster \X Roster : q[1] # q[2]},
          out \in SUBSET (Roster \X {"startup"}) :
         \E f \in [dom -> {StrongAlliance, WeakAlliance}] :
            edges = [q \in dom \cup out |->
                        IF q \in dom THEN f[q] ELSE StrongAlliance]
    /\ coalitions = <<>>
    /\ decays = 0
    /\ detections = <<>>

MemberSets(found) == {found[k].members : k \in 1..Len(found)}

\* coalition_manager.detect_coalitions(relationships, agent_ids)
CoalDetect ==
    /\ \E order \in RosterOrders :
         LET found == DetectCoalitions(edges, order)
         IN /\ coalitions' = found
            /\ detections' = LastN(Append(detections,
                                          [order |-> order,
                                           members |-> MemberSets(found)]),
                                   2)
    /\ UNCHANGED <<edges, decays>>
    /\ UNCHANGED <<engineVars, loopVars, reportVars, tripVars, actorVars,
                   busVars,
                   sideVars>>

CoalNext == CoalDetect

CoalSpec == CoalInit /\ [][CoalNext]_vars

\* C20 (as claimed): on an unchanged graph any two runs of
\* detect_coalitions, with the ids in the same order or in different
\* orders, give the same membership sets.
C20_DetectionOrderIndependent ==
    \A i, j \in 1..Len(detections) :
        detections[i].members = detections[j].members

\* the actor has no alliance edge of strength >= threshold to or from any
\* other actor
Isolated(e, a) ==
    \A b \in Roster \ {a} :
        /\ b \notin GetAllies(e, a, MinStrength)
        /\ a \notin GetAllies(e, b, MinStrength)

\* C21 (as claimed): every detected coalition has at least two members and
\* holds no isolated actor.
C21_IsolatedNeverMember ==
    \A k \in 1..Len(coalitions) :
        /\ Cardinality(coalitions[k].members) >= 2
        /\ \A a \in Roster :
             Isolated(edges, a) => a \notin coalitions[k].members

\* C22 (as claimed): every member of every detected coalition is an id of
\* the roster passed to detection.
C22_MembersWithinRoster ==
    \A k \in 1..Len(coalitions) : coalitions[k].members \subseteq Roster

\* ---------------------------------------------------------------------
\* EmergenceDetector (agent/emergence.py), specified on its own:
\* observations of action types, and reset
\* ---------------------------------------------------------------------

\* the action types observed, and the windows the detector is built with
EmActions == {"buy", "wait"}
WindowSizes == {5, 10}

\* Counter(seq)[a]
CountOf(seq, a) == Cardinality({i \in DOMAIN seq : seq[i] = a})
\* the keys of Counter(seq)
Kinds(seq) == {seq[i] : i \in DOMAIN seq}
\* Counter(seq).most_common(1)[0][0]: the highest count, and among equal
\* counts the key inserted first
MostCommon(seq) ==
    LET first(a) == CHOOSE i \in DOMAIN seq :
                        seq[i] = a /\ \A j \in 1..(i - 1) : seq[j] # a
    IN  CHOOSE a \in Kinds(seq) :
            \A b \in Kinds(seq) \ {a} :
                \/ CountOf(seq, a) > CountOf(seq, b)
                \/ /\ CountOf(seq, a) = CountOf(seq, b)
                   /\ first(a) < first(b)

\* CheckPatterns with the dominance raised from 60% on
CheckPatterns_AtLeast(h, w) ==
    LET recent == LastN(h, w)
    IN  IF \E a \in Kinds(recent) :
               CountOf(recent, a) * 10 >= 6 * Len(recent)
        THEN <<"action_dominance">> ELSE <<>>

\* _check_patterns(): the flag types handed to _flag, in order. The ratios
\* are compared as fractions: count / total > 0.6 is count * 10 > 6 * total,
\* unique / total < 0.15 is unique * 100 < 15 * total.
CheckPatterns(h, w) ==
    LET recent == LastN(h, w)
        total == Len(recent)
        dominance ==
            IF \E a \in Kinds(recent) : CountOf(recent, a) * 10 > 6 * total
            THEN <<"action_dominance">> ELSE <<>>
        collapse ==
            IF Cardinality(Kinds(recent)) * 100 < 15 * total
            THEN <<"diversity_collapse">> ELSE <<>>
        shift ==
            IF Len(h) >= w * 2
            THEN LET prev == SubSeq(h, Len(h) - 2 * w + 1, Len(h) - w)
                     prev_top == MostCommon(prev)
                     curr_top == MostCommon(recent)
                 IN  IF /\ prev_top # curr_top
                        /\ CountOf(recent, curr_top) * Len(prev)
                             > CountOf(prev, curr_top) * AnomalyThreshold
                                 * total
                     THEN <<"behavior_shift">> ELSE <<>>
            ELSE <<>>
    IN  dominance \o collapse \o shift

\* _flag without the test on the preceding flag
Flag_Always(fl, ty, tick) == Append(fl, [type |-> ty, tick |-> tick])

\* _flag(flag_type, ...) with len(action_history) = tick
Flag(fl, ty, tick) ==
    IF fl = <<>> \/ fl[Len(fl)].type # ty
    THEN Append(fl, [type |-> ty, tick |-> tick])
    ELSE fl

RECURSIVE FlagAll(_, _, _)
FlagAll(fl, tys, tick) ==
    IF tys = <<>> THEN fl
    ELSE FlagAll(Flag(fl, Head(tys), tick), Tail(tys), tick)

EmInit ==
    /\ IdleEngine
    /\ InitReport /\ InitTrip /\ InitActor /\ InitBus /\ InitRel
    /\ InitPerf /\ InitProv /\ InitPhases /\ InitLate
    /\ window_size \in WindowSizes
    /\ action_history = <<>>
    /\ flags = <<>>
    /\ raised = <<>>

\* observe(interaction) with interaction.action = a
EmObserveWith(a) ==
    /\ Len(action_history) < MaxObserved
    /\ LET h == Append(action_history, a)
           tys == IF Len(h) >= window_size
                  THEN CheckPatterns(h, window_size) ELSE <<>>
       IN  /\ action_history' = h
           /\ raised' = tys
           /\ flags' = FlagAll(flags, tys, Len(h))
    /\ UNCHANGED <<engineVars, loopVars, reportVars, tripVars, actorVars,
                   busVars, relVars, window_size, perfVars, provider,
                   phases, lateVars>>

EmObserve == \E a \in EmActions : EmObserveWith(a)

\* reset()
EmReset ==
    /\ action_history # <<>>
    /\ action_history' = <<>>
    /\ flags' = <<>>
    /\ raised' = <<>>
    /\ UNCHANGED <<engineVars, loopVars, reportVars, tripVars, actorVars,
                   busVars, relVars, window_size, perfVars, provider,
                   phases, lateVars>>

EmNext ==
    \/ EmObserve
    \/ EmReset

EmSpec == EmInit /\ [][EmNext]_vars

InSeq(seq, x) == \E i \in DOMAIN seq : seq[i] = x

\* how often the most frequent action type occurs in the most recent window
TopCount(h, w) ==
    LET recent == LastN(h, w)
    IN  CountOf(recent, MostCommon(recent))

\* C23 (as claimed): with a full window an observation raises
\* action_dominance exactly when one action type makes up at least 60% of
\* the most recent window, and before the window is full raises nothing.
C23_DominanceAtSixtyPercent ==
    [][EmObserve =>
        /\ Len(action_history') < window_size => raised' = <<>>
        /\ Len(action_history') >= window_size =>
             (InSeq(raised', "action_dominance")
                <=> TopCount(action_history', window_size) * 10
                      >= 6 * window_size)]_vars

\* C23 (amended): with a full window an observation raises
\* action_dominance exactly when one action type makes up more than 60% of
\* the most recent window, and before the window is full raises nothing.
C23_DominanceAboveSixtyPercent ==
    [][EmObserve =>
        /\ Len(action_history') < window_size => raised' = <<>>
        /\ Len(action_history') >= window_size =>
             (InSeq(raised', "action_dominance")
                <=> TopCount(action_history', window_size) * 10
                      > 6 * window_size)]_vars

\* an observation filled or moved the window so that exactly 60% of it is
\* one action type, and raised no action_dominance
C23_Witness ==
    /\ Len(action_history) >= window_size
    /\ TopCount(action_history, window_size) * 10 = 6 * window_size
    /\ ~InSeq(raised, "action_dominance")

\* C24: an observation only appends to the flag history, and the history
\* never holds two flags of the same type next to each other.
C24_AppendOnlyNoRepeat ==
    [][EmObserve =>
        /\ Len(flags') >= Len(flags)
        /\ SubSeq(flags', 1, Len(flags)) = flags
        /\ \A i \in 1..(Len(flags') - 1) :
             flags'[i].type # flags'[i + 1].type]_vars

\* the last observation raised action_dominance and the flag was dropped,
\* the flag recorded last being an action_dominance of an earlier tick
C24_Witness ==
    /\ raised = <<"action_dominance">>
    /\ flags # <<>>
    /\ flags[Len(flags)].type = "action_dominance"
    /\ flags[Len(flags)].tick < Len(action_history)

\* ---------------------------------------------------------------------
\* BatchWriter and AgentPool (engine/performance.py), specified on their
\* own: a writer and a pool called by one caller
\* ---------------------------------------------------------------------

\* flush() that writes the buffer and keeps it
BatchFlush_Keep(w) == [w EXCEPT !.persisted = w.persisted \o w.buffer]

\* flush(): one storage.log_interaction per buffered log, in order
BatchFlush(w) ==
    [w EXCEPT !.persisted = w.persisted \o w.buffer, !.buffer = <<>>]

\* add(log); elapsed: time.time() - _last_flush >= flush_interval
BatchAdd(w, log, elapsed) ==
    LET w1 == [w EXCEPT !.buffer = Append(w.buffer, log)]
    IN  IF Len(w1.buffer) >= w1.batch_size \/ elapsed
        THEN BatchFlush(w1) ELSE w1

\* AgentPool.add(agent)
PoolAdd(p, a) ==
    IF Len(p.active) < p.max_active
    THEN [p EXCEPT !.active = Append(p.active, a)]
    ELSE [p EXCEPT !.inactive = Append(p.inactive, a)]

\* rotate() that retires the actor promoted last
PoolRotate_Newest(p) ==
    IF p.inactive = <<>> THEN p
    ELSE [p EXCEPT
            !.active = Append(SubSeq(p.active, 1, Len(p.active) - 1),
                              Head(p.inactive)),
            !.inactive = Append(Tail(p.inactive),
                                p.active[Len(p.active)])]

\* AgentPool.rotate(); the actors are objects, which are truthy
PoolRotate(p) ==
    IF p.inactive = <<>> THEN p
    ELSE LET full == Len(p.active) >= p.max_active
             rest == IF full THEN Tail(p.active) ELSE p.active
             promoted == Head(p.inactive)
             left == Tail(p.inactive)
         IN  [p EXCEPT !.active = Append(rest, promoted),
                       !.inactive = IF full THEN Append(left, Head(p.active))
                                    ELSE left]

\* a writer of any small batch size and a pool of any small max_active
PerfInit ==
    /\ IdleEngine
    /\ InitReport /\ InitTrip /\ InitActor /\ InitBus /\ InitRel /\ InitEm
    /\ InitProv /\ InitPhases /\ InitLate
    /\ \E n \in 1..MaxBatch :
         writer = [batch_size |-> n, buffer |-> <<>>, persisted |-> <<>>]
    /\ writer_added = <<>>
    /\ \E n \in 1..MaxActive :
         pool = [max_active |-> n, active |-> <<>>, inactive |-> <<>>]
    /\ pool_added = 0

PerfPinned ==
    UNCHANGED <<engineVars, loopVars, reportVars, tripVars, actorVars,
                busVars, relVars, emVars, provider, phases, lateVars>>

\* writer.add(log) with the next log
PerfAddWith(elapsed) ==
    /\ Len(writer_added) < MaxLogs
    /\ LET log == Len(writer_added) + 1
       IN  /\ writer' = BatchAdd(writer, log, elapsed)
           /\ writer_added' = Append(writer_added, log)
    /\ UNCHANGED <<pool, pool_added>>
    /\ PerfPinned

PerfAdd == \E elapsed \in BOOLEAN : PerfAddWith(elapsed)

\* writer.flush()
PerfFlush ==
    /\ writer' = BatchFlush(writer)
    /\ UNCHANGED <<writer_added, pool, pool_added>>
    /\ PerfPinned

\* pool.add(agent) with the next actor
PerfPoolAdd ==
    /\ pool_added < MaxPooled
    /\ pool' = PoolAdd(pool, pool_added + 1)
    /\ pool_added' = pool_added + 1
    /\ UNCHANGED <<writer, writer_added>>
    /\ PerfPinned

\* pool.rotate()
PerfRotate ==
    /\ pool' = PoolRotate(pool)
    /\ UNCHANGED <<writer, writer_added, pool_added>>
    /\ PerfPinned

PerfNext ==
    \/ PerfAdd
    \/ PerfFlush
    \/ PerfPoolAdd
    \/ PerfRotate

PerfSpec == PerfInit /\ [][PerfNext]_vars

\* flush() in which storage.log_interaction raises on the log after the
\* first k: the k logs are written, the exception leaves the loop, and
\* _buffer.clear() is not reached
BatchFlushFails(w, k) ==
    [w EXCEPT !.persisted = w.persisted \o SubSeq(w.buffer, 1, k)]

\* writer.flush() that fails on one of the buffered logs
PerfFlushFails ==
    /\ writer.buffer # <<>>
    /\ Len(writer.persisted) < MaxLogs
    /\ \E k \in 0..(Len(writer.buffer) - 1) :
         writer' = BatchFlushFails(writer, k)
    /\ UNCHANGED <<writer_added, pool, pool_added>>
    /\ PerfPinned

FailNext ==
    \/ PerfNext
    \/ PerfFlushFails

\* the writer over a storage whose log_interaction can raise
FailSpec == PerfInit /\ [][FailNext]_vars

\* ---------------------------------------------------------------------
\* spawn_agent and the actors step() drives (engine/core.py), specified on
\* their own: the actors are 1..agents in the order they were spawned
\* ---------------------------------------------------------------------
RECURSIVE PoolAddAll(_, _, _)
\* for a in self.agents: self._agent_pool.add(a), from the i-th on
PoolAddAll(p, n, i) ==
    IF i > n THEN p ELSE PoolAddAll(PoolAdd(p, i), n, i + 1)

\* spawn_agent(agent): the actor is appended; the pool is created, and
\* filled with the actors spawned so far, when there are more than
\* PoolAbove actors and no pool yet
SpawnAgent(r) ==
    LET n == r.agents + 1
    IN  IF n > PoolAbove /\ r.agent_pool = <<>>
        THEN [r EXCEPT
                !.agents = n,
                !.agent_pool =
                    <<PoolAddAll([max_active |-> PooledActive,
                                  active |-> <<>>, inactive |-> <<>>],
                                 n, 1)>>]
        ELSE [r EXCEPT !.agents = n]

\* the actors of step(): get_active() hands out the pool's own list, which
\* rotate() changes before the loop over it starts
DriveActors(r) ==
    IF r.agent_pool # <<>>
    THEN LET q == PoolRotate(r.agent_pool[1])
         IN  [r EXCEPT !.agent_pool = <<q>>, !.driven = q.active]
    ELSE [r EXCEPT !.driven = [i \in 1..r.agents |-> i]]

RosterInit ==
    /\ IdleEngine
    /\ InitReport /\ InitTrip /\ InitActor /\ InitBus /\ InitRel
    /\ InitEm /\ InitPerf /\ InitProv /\ InitPhases
    /\ InitRoster /\ InitManager /\ InitRunway /\ InitDisk

RosterPinned ==
    UNCHANGED <<engineVars, loopVars, reportVars, tripVars, actorVars,
                busVars, relVars, emVars, perfVars, provider, phases,
                manager, runway, disk>>

\* spawn_agent(agent) with the next actor
RosterSpawn ==
    /\ roster.agents < MaxSpawned
    /\ roster' = SpawnAgent(roster)
    /\ RosterPinned

\* step() of the running engine, as far as the choice of actors goes
RosterStep ==
    /\ roster' = DriveActors(roster)
    /\ RosterPinned

RosterNext ==
    \/ RosterSpawn
    \/ RosterStep

RosterSpec == RosterInit /\ [][RosterNext]_vars

\* ---------------------------------------------------------------------
\* MultiPhaseManager (engine/scenarios.py), specified on its own; the
\* adoption rate is in thousandths
\* ---------------------------------------------------------------------
\* check_transition(tick, metrics) with metrics["adoption_rate"] = adoption
CheckTransition(m, tick, adoption) ==
    IF m.current_phase_idx >= Len(PHASES) - 1
    THEN [m EXCEPT !.result = FALSE]
    ELSE LET current_phase == PHASES[m.current_phase_idx + 1]
             threshold == PHASE_THRESHOLDS[m.current_phase_idx + 1]
         IN  IF tick >= threshold
                /\ 10 * adoption > Unit * (m.current_phase_idx + 1)
             THEN LET new_phase == PHASES[m.current_phase_idx + 2]
                  IN  [m EXCEPT
                         !.current_phase_idx = @ + 1,
                         !.stage = new_phase,
                         !.published =
                             Append(@, [from |-> current_phase,
                                        to |-> new_phase, tick |-> tick]),
                         !.result = TRUE]
             ELSE [m EXCEPT !.result = FALSE]

\* the ticks and adoption rates of the checks: below, at and above the
\* thresholds
CheckTicks == {19, 20, 50, 100, 200}
Adoptions == {100, 101, 201, 301, 401}

\* a manager for a simulation of any stage
ManagerInit ==
    /\ IdleEngine
    /\ InitReport /\ InitTrip /\ InitActor /\ InitBus /\ InitRel
    /\ InitEm /\ InitPerf /\ InitProv /\ InitPhases
    /\ InitRoster /\ InitRunway /\ InitDisk
    /\ \E i \in DOMAIN Stages : manager = NewManager(Stages[i])

ManagerCheckWith(tick, adoption) ==
    /\ manager' = CheckTransition(manager, tick, adoption)
    /\ UNCHANGED <<engineVars, loopVars, reportVars, tripVars, actorVars,
                   busVars, relVars, emVars, perfVars, provider, phases,
                   roster, runway, disk>>

ManagerCheck ==
    \E tick \in CheckTicks, adoption \in Adoptions :
        ManagerCheckWith(tick, adoption)

ManagerNext ==
    \/ ManagerCheck

ManagerSpec == ManagerInit /\ [][ManagerNext]_vars

\* ---------------------------------------------------------------------
\* The runway of economics.py and of generation.py, specified on their
\* own. Money is in whole units, growth rates are whole numbers (0 or 1,
\* so that a month multiplies by 1 or by 2), tick counts are at most a
\* month or whole months, and a number of months is in tenths
\* ---------------------------------------------------------------------
Max2(a, b) == IF a >= b THEN a ELSE b

\* max(tick_count / 30, 1)
MonthsElapsed(tick) == Max2(tick \div TicksPerMonth, 1)

RECURSIVE RunwayLoop(_, _, _, _, _)
\* the while loop of calculate_runway: the month counter when it ends
RunwayLoop(sim_runway, temp_cash, sim_revenue, sim_burn, growth) ==
    IF temp_cash > 0 /\ sim_runway < MaxHorizon
    THEN LET burn == sim_burn * (1 + growth)
         IN  RunwayLoop(sim_runway + 1, temp_cash - (burn - sim_revenue),
                        sim_revenue, burn, growth)
    ELSE sim_runway

\* calculate_runway(funding, current_burn_rate, current_monthly_revenue,
\* cumulative_burn_approx, current_cumulative_revenue, tick_count)
CalculateRunway(capital, growth, burn, monthly, cumulative_burn, revenue) ==
    LET current_cash == capital - cumulative_burn + revenue
    IN  IF current_cash <= 0 THEN 0
        ELSE 10 * RunwayLoop(0, current_cash, monthly, burn, growth)

\* runway_months of calculate_basic_metrics, rounded to one decimal
RunwayMonths(capital, burn, revenue, tick) ==
    LET cumulative_burn == burn * MonthsElapsed(tick)
        monthly_burn == IF burn > 0 THEN burn ELSE 1
        cash == capital - cumulative_burn + revenue
    IN  Max2((20 * cash + monthly_burn) \div (2 * monthly_burn), 0)

Capitals == {0, 4000, 500000}
BurnRates == {0, 500, 5000}
Revenues == {0, 1000}
RunwayTicks == {10, 60}

RunwayInit ==
    /\ IdleEngine
    /\ InitReport /\ InitTrip /\ InitActor /\ InitBus /\ InitRel
    /\ InitEm /\ InitPerf /\ InitProv /\ InitPhases
    /\ InitRoster /\ InitManager /\ InitDisk
    /\ \E capital \in Capitals, burn \in BurnRates, monthly \in Revenues,
          revenue \in Revenues, tick \in RunwayTicks, growth \in {0, 1} :
         runway = NewRunway(capital, burn, monthly, revenue, tick, growth)

RunwayPinned ==
    UNCHANGED <<engineVars, loopVars, reportVars, tripVars, actorVars,
                busVars, relVars, emVars, perfVars, provider, phases,
                roster, manager, disk>>

\* calculate_runway with the cumulative burn its caller is to approximate
RunwayProject ==
    /\ runway' =
         [runway EXCEPT !.projected =
             <<CalculateRunway(runway.initial_capital,
                               runway.burn_growth_rate, runway.burn_rate,
                               runway.monthly_revenue,
                               runway.burn_rate
                                 * MonthsElapsed(runway.tick_count),
                               runway.revenue)>>]
    /\ RunwayPinned

\* _emit_metrics: calculate_basic_metrics computes runway_months
RunwayEmit ==
    /\ runway' =
         [runway EXCEPT !.emitted =
             <<RunwayMonths(runway.initial_capital, runway.burn_rate,
                            runway.revenue, runway.tick_count)>>]
    /\ RunwayPinned

RunwayNext ==
    \/ RunwayProject
    \/ RunwayEmit

RunwaySpec == RunwayInit /\ [][RunwayNext]_vars

\* ---------------------------------------------------------------------
\* checkpoint() and get_simulation() over the metadata table of the
\* simulation's file, in a process that can stop at any point. A record
\* is the tick it was written at; each table operation of the database
\* library reaches the file whole
\* ---------------------------------------------------------------------
\* step(): the tick advances
DiskTick ==
    /\ disk.alive /\ disk.pc = "idle"
    /\ disk.tick_count < MaxDiskTicks
    /\ disk' = [disk EXCEPT !.tick_count = @ + 1]
    /\ UNCHANGED <<engineVars, loopVars, reportVars, tripVars, actorVars,
                   busVars, relVars, emVars, perfVars, provider, phases,
                   roster, manager, runway>>

\* checkpoint() up to and including meta.truncate()
DiskTruncate ==
    /\ disk.alive /\ disk.pc = "idle"
    /\ disk' = [disk EXCEPT !.meta = <<>>, !.pc = "truncated"]
    /\ UNCHANGED <<engineVars, loopVars, reportVars, tripVars, actorVars,
                   busVars, relVars, emVars, perfVars, provider, phases,
                   roster, manager, runway>>

\* checkpoint() from meta.insert(...) on
DiskInsert ==
    /\ disk.alive /\ disk.pc = "truncated"
    /\ disk' = [disk EXCEPT !.meta = Append(@, disk.tick_count),
                            !.pc = "idle"]
    /\ UNCHANGED <<engineVars, loopVars, reportVars, tripVars, actorVars,
                   busVars, relVars, emVars, perfVars, provider, phases,
                   roster, manager, runway>>

\* the process stops: the file keeps what was written
DiskCrash ==
    /\ disk.alive
    /\ disk' = [disk EXCEPT !.alive = FALSE, !.got = "none"]
    /\ UNCHANGED <<engineVars, loopVars, reportVars, tripVars, actorVars,
                   busVars, relVars, emVars, perfVars, provider, phases,
                   roster, manager, runway>>

\* a new process: get_simulation reads metadata_table.all()[0], which
\* raises IndexError on an empty table; with the record the engine is
\* constructed and restored
DiskRestart ==
    /\ ~disk.alive /\ disk.got = "none"
    /\ disk' = IF disk.meta = <<>>
               THEN [disk EXCEPT !.got = "IndexError"]
               ELSE [disk EXCEPT !.got = "record", !.alive = TRUE,
                                 !.pc = "idle",
                                 !.tick_count = disk.meta[1]]
    /\ UNCHANGED <<engineVars, loopVars, reportVars, tripVars, actorVars,
                   busVars, relVars, emVars, perfVars, provider, phases,
                   roster, manager, runway>>

DiskInit ==
    /\ IdleEngine
    /\ InitReport /\ InitTrip /\ InitActor /\ InitBus /\ InitRel
    /\ InitEm /\ InitPerf /\ InitProv /\ InitPhases
    /\ InitRoster /\ InitManager /\ InitRunway /\ InitDisk

DiskNext ==
    \/ DiskTick
    \/ DiskTruncate
    \/ DiskInsert
    \/ DiskCrash
    \/ DiskRestart

DiskSpec == DiskInit /\ [][DiskNext]_vars

\* C25: what was persisted followed by what is buffered is what was added;
\* an add persists everything added at batch_size entries or after the
\* flush interval and otherwise persists nothing; a flush persists
\* everything added and leaves the buffer empty.
C25_WriterLosesNothing ==
    [][/\ writer'.persisted \o writer'.buffer = writer_added'
       /\ \A elapsed \in BOOLEAN :
            PerfAddWith(elapsed) =>
                IF Len(writer.buffer) + 1 >= writer.batch_size \/ elapsed
                THEN writer'.persisted = writer_added'
                ELSE writer'.persisted = writer.persisted
       /\ PerfFlush =>
            writer'.persisted = writer_added /\ writer'.buffer = <<>>]_vars

\* logs were added below the batch size and within the interval, nothing
\* was persisted, and a flush persisted them all
C25_Witness ==
    /\ Len(writer_added) >= 2
    /\ writer.persisted = writer_added
    /\ writer.buffer = <<>>
    /\ writer.batch_size > Len(writer_added)

\* C26: active holds at most max_active actors, active and inactive hold
\* every added actor exactly once, and a rotate of a full pool with
\* inactive actors moves the head of active to the back of inactive and
\* the head of inactive to the back of active.
C26_PoolRotation ==
    [][/\ Len(pool'.active) <= pool'.max_active
       /\ LET all == pool'.active \o pool'.inactive
          IN  /\ Len(all) = pool_added'
              /\ \A a \in 1..pool_added' : \E i \in DOMAIN all : all[i] = a
       /\ (PerfRotate /\ Len(pool.active) >= pool.max_active
             /\ pool.inactive # <<>>) =>
            /\ pool'.active = Append(Tail(pool.active), Head(pool.inactive))
            /\ pool'.inactive = Append(Tail(pool.inactive),
                                       Head(pool.active))]_vars

\* the pool of tests/test_performance.py after its two rotations
C26_Witness ==
    /\ pool.max_active = 2
    /\ pool.active = <<3, 1>>
    /\ pool.inactive = <<2>>

\* ---------------------------------------------------------------------
\* OllamaProvider.completion (llm/ollama.py) with its RetryPolicy
\* (llm/base.py), specified on its own, one attempt of the loop at a time
\* ---------------------------------------------------------------------

\* what client.post and the checks after it do in one attempt: the
\* outcomes of AttemptOutcomes, an error status that is not one of
\* retryable_status_codes, and a 200 answer with a blank "response"
PostOutcomes == AttemptOutcomes \cup {"other_status", "empty"}
BackoffBases == {2, 3}

RECURSIVE Pow(_, _)
Pow(b, n) == IF n = 0 THEN 1 ELSE b * Pow(b, n - 1)

\* RetryPolicy.backoff_seconds(attempt)
BackoffSeconds(c) == Pow(c.backoff_base, c.attempt)

\* one attempt that sleeps and continues after every failure
AttemptOnce_Unbounded(c, out) ==
    LET c1 == [c EXCEPT !.posts = Append(@, out)]
    IN  IF out = "ok" THEN [c1 EXCEPT !.status = "returned"]
        ELSE [c1 EXCEPT !.waits = Append(@, BackoffSeconds(c)),
                        !.attempt = @ + 1]

\* the body of `for attempt in range(max_retries)` for one attempt
AttemptOnce(c, out) ==
    LET c1 == [c EXCEPT !.posts = Append(@, out)]
        more == c.attempt < c.max_retries - 1
    IN  CASE out = "ok" -> [c1 EXCEPT !.status = "returned"]
          [] out = "empty" -> [c1 EXCEPT !.status = "ValueError"]
          [] OTHER ->
               IF more
               THEN [c1 EXCEPT !.waits = Append(@, BackoffSeconds(c)),
                               !.attempt = @ + 1]
               ELSE [c1 EXCEPT !.status =
                        IF out = "network" THEN "TransportError"
                        ELSE "HTTPStatusError"]

ProvInit ==
    /\ IdleEngine
    /\ InitReport /\ InitTrip /\ InitActor /\ InitBus /\ InitRel
    /\ InitEm /\ InitPerf /\ InitPhases /\ InitLate
    /\ \E n \in 0..MaxPolicyRetries, b \in BackoffBases :
         provider = NewProvider(n, b)

ProvPinned ==
    UNCHANGED <<engineVars, loopVars, reportVars, tripVars, actorVars,
                busVars, relVars, emVars, perfVars, phases, lateVars>>

\* completion(prompt) is called: the loop is entered, or ended at once by
\* the RuntimeError after it when range(max_retries) is empty
ProvCall ==
    /\ provider.status # "running"
    /\ provider' = [NewProvider(provider.max_retries, provider.backoff_base)
                      EXCEPT !.status = IF provider.max_retries = 0
                                        THEN "RuntimeError" ELSE "running"]
    /\ ProvPinned

\* one attempt of the running call
ProvAttemptWith(out) ==
    /\ provider.status = "running"
    /\ provider' = AttemptOnce(provider, out)
    /\ ProvPinned

ProvAttempt == \E out \in PostOutcomes : ProvAttemptWith(out)

ProvNext ==
    \/ ProvCall
    \/ ProvAttempt

ProvSpec == ProvInit /\ [][ProvNext]_vars

C28_SecondQueryBeforeFallback ==
    [][\A in \in RunInputs :
         (ActorRunStepWith(in[1], in[2], in[3])
          /\ Completion(in[1], in[2], in[3]).kind = "text"
          /\ ~Truthy(ExtractJson(in[3])))
         => (queries' = 2 /\ outcome'.kind = "interaction"
             /\ outcome'.action = "wait")]_vars

\* ---------------------------------------------------------------------
\* The order of the calls inside SimulationEngine.step (engine/core.py),
\* specified on its own: every call of step() is recorded as it is made
\* ---------------------------------------------------------------------

\* the tick counts runs start from: a new simulation, and checkpoints
\* shortly before a metrics, conversation, coalition and checkpoint tick
StartTicks ==
    {0, MetricsEvery - 2, ConversationEvery - 2, CoalitionEvery - 2,
     CheckpointEvery - 2}

\* `for agent in active_agents` from the i-th actor on (no AgentPool):
\* run_step, and for an interaction the writer, the relationship graph,
\* the emergence detector and the sentiment tracker, then the next actor
RECURSIVE LoopPhases(_, _, _, _)
LoopPhases(outs, i, failures, ceiling) ==
    IF i > Len(outs)
    THEN [trace |-> <<>>, ret |-> FALSE, failures |-> failures]
    ELSE IF outs[i] = "raise"
    THEN IF ceiling # 0 /\ failures + 1 >= ceiling
         THEN [trace |-> <<"run_step", "stop">>, ret |-> TRUE,
               failures |-> failures + 1]
         ELSE LET r == LoopPhases(outs, i + 1, failures + 1, ceiling)
              IN  [r EXCEPT !.trace = <<"run_step">> \o @]
    ELSE IF outs[i] = "none"
    THEN LET r == LoopPhases(outs, i + 1, failures, ceiling)
         IN  [r EXCEPT !.trace = <<"run_step">> \o @]
    ELSE LET r == LoopPhases(outs, i + 1, 0, ceiling)
         IN  [r EXCEPT !.trace =
                 <<"run_step", "writer", "relationships", "emergence",
                   "sentiment">> \o @]

\* the tail of step() with the checkpoint taken before the decay
TailPhases_CheckpointFirst(tick, llm) ==
    <<"tick">>
    \o (IF tick % MetricsEvery = 0 THEN <<"metrics">> ELSE <<>>)
    \o (IF tick % CoalitionEvery = 0 THEN <<"coalitions">> ELSE <<>>)
    \o (IF tick % CheckpointEvery = 0 THEN <<"checkpoint">> ELSE <<>>)
    \o <<"decay">>

\* the tail of step(): what follows the loop
TailPhases(tick, llm) ==
    <<"tick">>
    \o (IF tick % MetricsEvery = 0
        THEN <<"metrics", "sentiment_update", "phase_manager">> ELSE <<>>)
    \o (IF tick % CoalitionEvery = 0 THEN <<"coalitions">> ELSE <<>>)
    \o (IF tick % ConversationEvery = 0 /\ llm
        THEN <<"conversations">> ELSE <<>>)
    \o (IF tick % DebateEvery = 0 /\ llm THEN <<"debates">> ELSE <<>>)
    \o <<"decay">>
    \o (IF tick % CheckpointEvery = 0 THEN <<"checkpoint">> ELSE <<>>)

PhaseInit ==
    /\ IdleEngine
    /\ InitReport /\ InitTrip /\ InitActor /\ InitBus /\ InitRel
    /\ InitEm /\ InitPerf /\ InitProv /\ InitLate
    /\ \E tick \in StartTicks, n \in 1..MaxPhaseActors, llm \in BOOLEAN,
          ceiling \in {0, 2} :
         phases = NewPhases(tick, n, llm, ceiling)

\* step() of a running engine, outs[i] being what the i-th run_step does
PhaseStepWith(outs) ==
    /\ phases.is_running
    /\ phases.tick_count < phases.first_tick + MaxPhaseTicks
    /\ LET tick == phases.tick_count + 1
           r == LoopPhases(outs, 1, phases.consecutive_failures,
                           phases.max_failures)
       IN  phases' =
             [phases EXCEPT
                !.tick_count = tick,
                !.consecutive_failures = r.failures,
                !.is_running = ~r.ret,
                !.returned = r.ret,
                !.trace = <<"clock", "world_state">> \o r.trace
                          \o (IF r.ret THEN <<>>
                              ELSE TailPhases(tick, phases.llm_provider))]
    /\ UNCHANGED <<engineVars, loopVars, reportVars, tripVars, actorVars,
                   busVars, relVars, emVars, perfVars, provider, lateVars>>

PhaseStep ==
    \E outs \in [1..phases.actors -> RunOutcomes] : PhaseStepWith(outs)

PhaseNext == PhaseStep

PhaseSpec == PhaseInit /\ [][PhaseNext]_vars

\* the calls of a trace that are among the given ones, in order
Only(trace, calls) == SelectSeq(trace, LAMBDA c : c \in calls)

\* C29: of the phases named, a tick that step() processed to its end has
\* exactly these, in this order: the clock advance, one run-step per
\* actor, the tick event, the metrics emission if the tick is a multiple
\* of 10, the coalition recomputation if it is a multiple of 50, the decay,
\* the checkpoint if it is a multiple of 100; a tick that step() left early
\* has no metrics emission and no checkpoint.
C29_PhaseOrder ==
    LET named == {"clock", "run_step", "tick", "metrics", "coalitions",
                  "decay", "checkpoint"}
        tick == phases.tick_count
    IN  /\ (phases.trace # <<>> /\ ~phases.returned) =>
             Only(phases.trace, named) =
                <<"clock">> \o [i \in 1..phases.actors |-> "run_step"]
                \o <<"tick">>
                \o (IF tick % 10 = 0 THEN <<"metrics">> ELSE <<>>)
                \o (IF tick % 50 = 0 THEN <<"coalitions">> ELSE <<>>)
                \o <<"decay">>
                \o (IF tick % 100 = 0 THEN <<"checkpoint">> ELSE <<>>)
        /\ phases.returned =>
             Only(phases.trace, {"metrics", "checkpoint"}) = <<>>

\* tick 100 processed to its end: every phase took place
C29_Witness ==
    /\ phases.tick_count = 100
    /\ ~phases.returned
    /\ Only(phases.trace, {"metrics", "coalitions", "decay", "checkpoint"})
         = <<"metrics", "coalitions", "decay", "checkpoint">>

\* C30 (as claimed): in no tick is the relationship graph, the emergence
\* detector or the sentiment tracker updated before a run-step of the
\* same tick.
C30_SideEffectsAfterAllRunSteps ==
    \A i, j \in DOMAIN phases.trace :
        (/\ phases.trace[i] \in {"relationships", "emergence", "sentiment"}
         /\ phases.trace[j] = "run_step") => j < i

\* C39 (as claimed): the coalitions one detect_coalitions call returns are
\* pairwise disjoint.
C39_CoalitionsDisjoint ==
    \A i, j \in 1..Len(coalitions) :
        i # j => coalitions[i].members \cap coalitions[j].members = {}

\* C36 (as claimed): in every state of a run the scheduler is flagged
\* paused only while it is running.
C36_PausedOnlyWhileRunning == is_paused => is_running

\* C33 (as claimed): an interrupt that finds the scheduler running and
\* not paused pauses it and leaves it running; an interrupt that finds it
\* paused by an earlier interrupt stops it; a resume of the paused
\* scheduler makes the next interrupt pause again.
C33_InterruptEscalation ==
    [][/\ Sigint =>
            /\ (is_running /\ ~is_paused) => (is_running' /\ is_paused')
            /\ (is_running /\ is_paused /\ sigint_count >= 1)
                  => (~is_running' /\ ~is_paused')
       /\ ((KeyResume \/ Sigint) /\ is_running /\ is_paused /\ is_running'
             /\ ~is_paused')
            => sigint_count' = 0]_vars

\* C32 (as claimed): when run_loop(max_ticks = N) with N >= 1 has ended,
\* the scheduler is stopped and tick_count is at most N, also in a run
\* started after restoring a checkpoint.
C32_EndsWithinMaxTicks ==
    (pc = "exited" /\ max_ticks # 0)
        => (~is_running /\ tick_count <= max_ticks)

\* C40 (as claimed): whatever flush fails part-way, no interaction is
\* persisted twice by a later flush.
C40_NothingPersistedTwice ==
    \A i, j \in 1..Len(writer.persisted) :
        writer.persisted[i] = writer.persisted[j] => i = j

\* C31 (as claimed): once the engine pools its actors, every spawned
\* actor is in the pool, also an actor spawned after the pool was created.
C31_EverySpawnedPooled ==
    roster.agent_pool # <<>> =>
        \A a \in 1..roster.agents :
            \/ InSeq(roster.agent_pool[1].active, a)
            \/ InSeq(roster.agent_pool[1].inactive, a)

\* C34 (as claimed): no transition check moves the simulation to an
\* earlier stage, whatever stage it started in.
C34_StageNeverBackward ==
    [][IndexOf(Stages, manager'.stage) >= IndexOf(Stages, manager.stage)]_vars

\* C35 (as claimed): the runway_months value emitted in a metrics cycle
\* is between 0 and the horizon of 60 months.
C35_EmittedWithinHorizon ==
    runway.emitted # <<>> =>
        (runway.emitted[1] >= 0 /\ runway.emitted[1] <= 10 * MaxHorizon)

\* C38 (as claimed): wherever the process stopped, the metadata table
\* holds a record and get_simulation succeeds after the restart.
C38_RecordNeverMissing == disk.got # "IndexError"

\* C37 (as claimed): the timestamps of the persisted interaction log are
\* non-decreasing in append order, also across a stop, a restore and a
\* continued run.
C37_TimestampsNonDecreasing ==
    (engine_no = 2 /\ restore_result = "true") =>
        \A i, j \in 1..Len(persisted) :
            i < j => persisted[i][2] <= persisted[j][2]

====
